---- MODULE Spec2Model ----
(***************************************************************************)
(* Model of device_config_extractor.py: the address loader (load_ip_list), *)
(* the SSH session client (ssh_run), the credential prober                 *)
(* (try_credentials), the output parsers, the per-device orchestrator      *)
(* (process_ip) and the worker pool of main().                             *)
(*                                                                         *)
(* Texts (command output) are sequences of one-character strings, so that  *)
(* the parsers are computed the way the code computes them.  Exception     *)
(* messages, user names, passwords and addresses are opaque strings: the   *)
(* code only copies and compares them.                                     *)
(***************************************************************************)
EXTENDS Integers, Sequences, FiniteSets, TLC

\* ------------------------------------------------------------------------
\* Configuration (device_config_extractor.py, lines 19-33)
\* ------------------------------------------------------------------------

\* The pool size.  The program sets 15; the model runs a pool of this size.
MAX_WORKERS == 2

\* The largest number of input addresses of a run.
MaxIps == 3

\* How many credentials of the list a run over several addresses is given.
PoolCreds == 1

\* The number of input addresses of the runs checked for termination.
FairIps == 2

\* The largest number of lines of a text given to parse_wireless on its own.
MaxLines == 4

\* The largest number of lines of a text given to parse_identity on its own.
MaxIdLines == 3

\* The largest number of cells of a column given to load_ip_list.
MaxCells == 3

\* The largest number of rows of the source workbook that results are merged
\* into.
MaxRows == 2

\* The largest number of rows of the contacts file given to parse_contacts.
MaxContactRows == 3

\* The largest number of customer rows and of parsed contacts given to
\* match_accounts.
MaxAccounts == 2
MaxContacts == 2

COMMAND_IDENTITY == "/system identity print"

COMMAND_WIRELESS == "/interface wireless print detail without-paging"

COMMAND_WIRELESS_ALT == "/interface wifiwave2 print detail without-paging"

COMMAND_EXPORT == "/export terse"

CREDENTIALS ==
    << <<"admin", "kol5ara">>, <<"admin", "Admin">>,
       <<"admin", "ADmin">>, <<"admin", "admin">> >>

\* ------------------------------------------------------------------------
\* Python string operations on texts
\* ------------------------------------------------------------------------

EMPTY == << >>

\* Printable ASCII in code point order (32..126); sorted() compares strings
\* by code point.  Code point 96 is spelled out: no text of the model holds it.
ASCII ==
    << " ", "!", "\"", "#", "$", "%", "&", "'", "(", ")", "*", "+", ",", "-",
       ".", "/", "0", "1", "2", "3", "4", "5", "6", "7", "8", "9", ":", ";",
       "<", "=", ">", "?", "@", "A", "B", "C", "D", "E", "F", "G", "H", "I",
       "J", "K", "L", "M", "N", "O", "P", "Q", "R", "S", "T", "U", "V", "W",
       "X", "Y", "Z", "[", "\\", "]", "^", "_", "backtick", "a", "b", "c", "d", "e",
       "f", "g", "h", "i", "j", "k", "l", "m", "n", "o", "p", "q", "r", "s",
       "t", "u", "v", "w", "x", "y", "z", "{", "|", "}", "~" >>

ord(c) ==
    IF c = "\t" THEN 9
    ELSE IF c = "\n" THEN 10
    ELSE IF c = "\r" THEN 13
    ELSE 31 + (CHOOSE i \in 1..Len(ASCII) : ASCII[i] = c)

\* str.isspace() of one character; the class \s of re.
IsSpace(c) == c \in {" ", "\t", "\n", "\r"}

\* s[i:] with a 1-based i.
Drop(s, i) == SubSeq(s, i, Len(s))

\* Whether p occurs in s at position i.
MatchAt(s, p, i) ==
    /\ i >= 1
    /\ i + Len(p) - 1 <= Len(s)
    /\ \A j \in 1..Len(p) : s[i + j - 1] = p[j]

\* str.find, 1-based; 0 when p does not occur.
Find(s, p) ==
    LET at == {i \in 1..Len(s) : MatchAt(s, p, i)}
    IN  IF at = {} THEN 0 ELSE CHOOSE i \in at : \A j \in at : i <= j

\* p in s
Contains(s, p) == Find(s, p) # 0

\* str.lstrip()
RECURSIVE lstrip(_)
lstrip(s) ==
    IF s # EMPTY /\ IsSpace(Head(s)) THEN lstrip(Tail(s)) ELSE s

\* str.rstrip()
RECURSIVE rstrip(_)
rstrip(s) ==
    IF s # EMPTY /\ IsSpace(s[Len(s)]) THEN rstrip(SubSeq(s, 1, Len(s) - 1))
    ELSE s

\* str.strip()
strip(s) == rstrip(lstrip(s))

\* Faulty variant of StripQuotes: the quotes are left in place.
KeepsQuotes(s) == s

\* str.strip('"')
RECURSIVE StripQuotes(_)
StripQuotes(s) ==
    IF s # EMPTY /\ Head(s) = "\"" THEN StripQuotes(Tail(s))
    ELSE IF s # EMPTY /\ s[Len(s)] = "\"" THEN StripQuotes(SubSeq(s, 1, Len(s) - 1))
    ELSE s

\* str.splitlines(): the lines of s without their line breaks; a text that
\* ends with a line break has no empty last line.
RECURSIVE splitlines(_)
splitlines(s) ==
    IF s = EMPTY THEN << >>
    ELSE LET i == Find(s, <<"\n">>)
         IN  IF i = 0 THEN <<s>>
             ELSE <<SubSeq(s, 1, i - 1)>> \o splitlines(Drop(s, i + 1))

\* The longest prefix of s made of characters that are neither a double
\* quote nor white space: what [^"\s]+ takes, greedily.
RECURSIVE TokenRun(_)
TokenRun(s) ==
    IF s # EMPTY /\ Head(s) # "\"" /\ ~IsSpace(Head(s))
    THEN <<Head(s)>> \o TokenRun(Tail(s))
    ELSE << >>

\* The longest prefix of s without white space: what [^\s]+ takes.
RECURSIVE NonSpaceRun(_)
NonSpaceRun(s) ==
    IF s # EMPTY /\ ~IsSpace(Head(s))
    THEN <<Head(s)>> \o NonSpaceRun(Tail(s))
    ELSE << >>

\* Lexicographic order of two texts by code point: a < b.
RECURSIVE StrLess(_, _)
StrLess(a, b) ==
    IF b = EMPTY THEN FALSE
    ELSE IF a = EMPTY THEN TRUE
    ELSE IF Head(a) = Head(b) THEN StrLess(Tail(a), Tail(b))
    ELSE ord(Head(a)) < ord(Head(b))

\* Faulty variant of sorted: the largest text comes first.
RECURSIVE sortedDescending(_)
sortedDescending(S) ==
    IF S = {} THEN << >>
    ELSE LET m == CHOOSE x \in S : \A y \in S \ {x} : StrLess(y, x)
         IN  <<m>> \o sortedDescending(S \ {m})

\* sorted(S) of a set of texts.
RECURSIVE sorted(_)
sorted(S) ==
    IF S = {} THEN << >>
    ELSE LET m == CHOOSE x \in S : \A y \in S \ {x} : StrLess(x, y)
         IN  <<m>> \o sorted(S \ {m})

\* ';'.join(list)
RECURSIVE join(_)
join(list) ==
    IF list = << >> THEN EMPTY
    ELSE IF Len(list) = 1 THEN list[1]
    ELSE list[1] \o <<";">> \o join(Tail(list))

\* The characters of a string literal, as a text.
Text(str) == [i \in 1..Len(str) |-> SubSeq(str, i, i)]

\* The elements of a list, as a set.
Range(list) == {list[i] : i \in 1..Len(list)}

\* str.split(sep) with a one-character separator.
RECURSIVE split(_, _)
split(s, sep) ==
    LET i == Find(s, <<sep>>)
    IN  IF i = 0 THEN <<s>>
        ELSE <<SubSeq(s, 1, i - 1)>> \o split(Drop(s, i + 1), sep)

\* The class \d of re, on the characters the model holds.
IsDigit(c) == c \in {"0", "1", "2", "3", "4", "5", "6", "7", "8", "9"}

\* The longest prefix of s made of digits: what \d+ takes, greedily.
RECURSIVE DigitRun(_)
DigitRun(s) ==
    IF s # EMPTY /\ IsDigit(Head(s))
    THEN <<Head(s)>> \o DigitRun(Tail(s))
    ELSE << >>

\* int(s) of a text made of digits.
RECURSIVE int(_)
int(s) ==
    IF s = EMPTY THEN 0
    ELSE 10 * int(SubSeq(s, 1, Len(s) - 1)) + (ord(s[Len(s)]) - ord("0"))

\* ------------------------------------------------------------------------
\* load_ip_list
\* ------------------------------------------------------------------------

\* Where a match of  \d+(\.\d+){groups-1}  that starts at position i of val
\* ends; 0 when there is none.  A run of digits is followed by a dot or ends
\* the match, so taking fewer digits than the run holds never helps.
RECURSIVE IpLikeEnd(_, _, _)
IpLikeEnd(val, i, groups) ==
    LET run == DigitRun(Drop(val, i))
        j   == i + Len(run)
    IN  IF run = EMPTY THEN 0
        ELSE IF groups = 1 THEN j - 1
        ELSE IF j <= Len(val) /\ val[j] = "." THEN IpLikeEnd(val, j + 1, groups - 1)
        ELSE 0

\* line 54: re.search(r'(\d+\.\d+\.\d+\.\d+)', val): the set holding group(1)
\* of the leftmost match, empty when there is no match.
IpLikeToken(val) ==
    LET at == {i \in 1..Len(val) : IpLikeEnd(val, i, 4) # 0}
    IN  IF at = {} THEN {}
        ELSE LET i == CHOOSE k \in at : \A j \in at : k <= j
             IN  {SubSeq(val, i, IpLikeEnd(val, i, 4))}

\* line 59: ipaddress.ip_address(candidate) does not raise.  The candidate
\* has four groups of digits; each must have at most three digits, no
\* leading zero, and a value of at most 255.
IsIpAddress(candidate) ==
    \A octet \in Range(split(candidate, ".")) :
        /\ Len(octet) <= 3
        /\ Len(octet) > 1 => octet[1] # "0"
        /\ int(octet) <= 255

\* Faulty variant of Keeps: an address already in the list is added again.
KeepsDuplicates(candidate, acc) == IsIpAddress(candidate)

\* lines 58-63: whether the candidate is appended
Keeps(candidate, acc) == IsIpAddress(candidate) /\ candidate \notin Range(acc)

\* lines 51-64: the loop over the cells, acc being the list built so far
RECURSIVE LoadLoop(_, _)
LoadLoop(series, acc) ==
    IF series = << >> THEN acc
    ELSE LET m == IpLikeToken(Head(series))
         IN  IF m = {} THEN LoadLoop(Tail(series), acc)
             ELSE LET candidate == CHOOSE t \in m : TRUE
                  IN  LoadLoop(Tail(series),
                               IF Keeps(candidate, acc) THEN Append(acc, candidate)
                               ELSE acc)

\* line 50: df.iloc[:, 0].dropna().astype(str).str.strip(); an empty cell
\* is the empty text.
RECURSIVE StripCells(_)
StripCells(column) ==
    IF column = << >> THEN << >>
    ELSE IF Head(column) = EMPTY THEN StripCells(Tail(column))
    ELSE <<strip(Head(column))>> \o StripCells(Tail(column))

\* load_ip_list, given the cells of the column below its header
load_ip_list(column) == LoadLoop(StripCells(column), << >>)

\* ------------------------------------------------------------------------
\* Output parsers
\* ------------------------------------------------------------------------

MARK_SSID == <<"s", "s", "i", "d", "=">>

MARK_RADIO == <<"r", "a", "d", "i", "o", "-", "n", "a", "m", "e", "=">>

MARK_NAME == <<"n", "a", "m", "e", ":">>

MARK_SET == <<"s", "e", "t">>

MARK_NAME_EQ == <<"n", "a", "m", "e", "=">>

\* Where the group of  marker"?([^"\s]+)"?  starts when the pattern is tried
\* at position i of line: after the marker and one optional double quote.
GroupStart(line, marker, i) ==
    LET j == i + Len(marker)
    IN  IF j <= Len(line) /\ line[j] = "\"" THEN j + 1 ELSE j

\* Whether  marker"?([^"\s]+)"?  matches at position i of line.
PatternAt(line, marker, i) ==
    /\ MatchAt(line, marker, i)
    /\ TokenRun(Drop(line, GroupStart(line, marker, i))) # EMPTY

\* re.search(marker"?([^"\s]+)"?, line): the set holding group(1) of the
\* leftmost match, empty when there is no match.
SearchToken(line, marker) ==
    LET at == {i \in 1..Len(line) : PatternAt(line, marker, i)}
    IN  IF at = {} THEN {}
        ELSE LET i == CHOOSE k \in at : \A j \in at : k <= j
             IN  {TokenRun(Drop(line, GroupStart(line, marker, i)))}

\* The values one marker contributes over all lines of raw.
MarkerValues(raw, marker) ==
    LET lines == splitlines(raw)
    IN  UNION {IF Contains(lines[k], marker) THEN SearchToken(lines[k], marker)
               ELSE {} : k \in 1..Len(lines)}

parse_wireless(raw) ==
    [ssids  |-> join(sorted(MarkerValues(raw, MARK_SSID))),
     radios |-> join(sorted(MarkerValues(raw, MARK_RADIO)))]

\* Whether  set\s+name=([^\s]+)  matches at position i of raw.
SetNameAt(raw, i) ==
    /\ MatchAt(raw, MARK_SET, i)
    /\ LET rest == Drop(raw, i + Len(MARK_SET))
           body == lstrip(rest)
       IN  /\ body # rest
           /\ MatchAt(body, MARK_NAME_EQ, 1)
           /\ NonSpaceRun(Drop(body, Len(MARK_NAME_EQ) + 1)) # EMPTY

\* group(1) of  set\s+name=([^\s]+)  matched at position i of raw.
SetNameGroup(raw, i) ==
    NonSpaceRun(Drop(lstrip(Drop(raw, i + Len(MARK_SET))), Len(MARK_NAME_EQ) + 1))

parse_identity(raw) ==
    LET lines == splitlines(raw)
        named == {k \in 1..Len(lines) : Contains(lines[k], MARK_NAME)}
        at    == {i \in 1..Len(raw) : SetNameAt(raw, i)}
    IN  IF named # {}
        THEN LET k == CHOOSE n \in named : \A j \in named : n <= j
             IN  strip(Drop(lines[k], Find(lines[k], MARK_NAME) + Len(MARK_NAME)))
        ELSE IF at # {}
        THEN LET i == CHOOSE n \in at : \A j \in at : n <= j
             IN  StripQuotes(strip(SetNameGroup(raw, i)))
        ELSE EMPTY

\* ------------------------------------------------------------------------
\* Devices: what a session call can meet
\* ------------------------------------------------------------------------

\* Addresses of the input column, in column order.
ADDRS == <<"10.0.0.1", "10.0.0.2", "10.0.0.3", "10.0.0.4", "10.0.0.5">>

\* "  name: R1\n"
TXT_IDENTITY == <<" ", " ">> \o MARK_NAME \o <<" ", "R", "1", "\n">>

\* "\n": output that str.strip() empties
TXT_BLANK == <<"\n">>

\* "err\n": what a command writes to standard error
TXT_STDERR == <<"e", "r", "r", "\n">>

\* ' 0 ssid="A" radio-name="R1"\n'
TXT_WIRELESS ==
    <<" ", "0", " ">> \o MARK_SSID \o <<"\"", "A", "\"", " ">> \o MARK_RADIO
        \o <<"\"", "R", "1", "\"", "\n">>

\* '/ip\nset radio-name="R2"\n'
TXT_EXPORT_RADIO ==
    <<"/", "i", "p", "\n">> \o MARK_SET \o <<" ">> \o MARK_RADIO
        \o <<"\"", "R", "2", "\"", "\n">>

\* 'set radio-name=""\n': the marker with an empty value
TXT_EXPORT_NOVALUE ==
    MARK_SET \o <<" ">> \o MARK_RADIO \o <<"\"", "\"", "\n">>

\* '/ip\n': no marker at all
TXT_EXPORT_PLAIN == <<"/", "i", "p", "\n">>

Out(o, e) == [out |-> o, err |-> e]

\* The devices of a run over several addresses: every kind of outcome, one
\* text of each kind.
PoolEnv ==
    [msgs |-> {"timed out"},
     outs |-> [identity     |-> {Out(TXT_IDENTITY, EMPTY), Out(EMPTY, EMPTY)},
               wireless     |-> {Out(TXT_WIRELESS, EMPTY), Out(EMPTY, EMPTY)},
               wireless_alt |-> {Out(TXT_WIRELESS, EMPTY), Out(EMPTY, EMPTY)},
               export       |-> {Out(TXT_EXPORT_RADIO, EMPTY), Out(EMPTY, EMPTY)}]]

\* The device of a run over one address: two exception messages (one of them
\* the empty message of an exception raised without arguments), output on
\* either stream, export texts with and without a radio-name value.
ProbeEnv ==
    [msgs |-> {"timed out", ""},
     outs |-> [identity     |-> {Out(TXT_IDENTITY, EMPTY), Out(EMPTY, EMPTY),
                                 Out(TXT_BLANK, TXT_STDERR)},
               wireless     |-> {Out(TXT_WIRELESS, EMPTY), Out(EMPTY, EMPTY),
                                 Out(TXT_BLANK, EMPTY)},
               wireless_alt |-> {Out(TXT_WIRELESS, EMPTY), Out(EMPTY, EMPTY)},
               export       |-> {Out(TXT_EXPORT_RADIO, EMPTY),
                                 Out(TXT_EXPORT_NOVALUE, EMPTY),
                                 Out(TXT_EXPORT_PLAIN, EMPTY),
                                 Out(EMPTY, EMPTY)}]]

\* The devices of the runs checked for termination: every kind of outcome,
\* with the shortest text of each kind (what a run does next depends on
\* whether a text is empty, never on what it says).
FairEnv ==
    [msgs |-> {"timed out"},
     outs |-> [identity     |-> {Out(<<"R">>, EMPTY), Out(EMPTY, EMPTY)},
               wireless     |-> {Out(<<"w">>, EMPTY), Out(EMPTY, EMPTY)},
               wireless_alt |-> {Out(<<"w">>, EMPTY), Out(EMPTY, EMPTY)},
               export       |-> {Out(<<"x">>, EMPTY), Out(EMPTY, EMPTY)}]]

\* str(e) of paramiko.AuthenticationException
AUTH_MSG == "Authentication failed."

\* ------------------------------------------------------------------------
\* State
\* ------------------------------------------------------------------------

VARIABLES
    ips,          \* the list load_ip_list returned
    creds,        \* the credential list the run reads (the global CREDENTIALS)
    worker,       \* each pool thread: idle, or its frame inside process_ip
    future,       \* per work item: pending, running, done (a record), raised
    nextItem,     \* head of the pool's work queue (items are queued in order)
    results,      \* main's results list
    mainPc,       \* main: "map" (in the with block), "done", "aborted"; after
                  \* the block (SpecReport) "outputs", "failed_list",
                  \* "merge_backup", "merge_read", "merge_write", "end",
                  \* "crashed"
    mainPos,      \* how many items pool.map's iterator has yielded
    finishOrder,  \* the items in the order their futures completed
    conns,        \* per pool thread: its open connections
    log,          \* per work item: the session calls made for it (SpecProbe)
    arg,          \* the argument of a function called on its own (SpecUnit)
    ret,          \* what that call returned (SpecUnit)
    outside       \* what main leaves behind: the documents on disk and the
                  \* console (SpecReport)

vars ==
    <<ips, creds, worker, future, nextItem, results, mainPc, mainPos, finishOrder,
      conns, log, arg, ret, outside>>

\* Faulty variant of Workers: the pool starts one thread too many.
WorkersOneMore == 1..(MAX_WORKERS + 1)

\* line 236: ThreadPoolExecutor(max_workers=MAX_WORKERS)
Workers == 1..MAX_WORKERS

Items == 1..Len(ips)

NoResult == [kind |-> "none", val |-> EMPTY, msg |-> ""]

NoCall == [ip |-> "", username |-> "", password |-> "", command |-> ""]

NoCred == <<"", "">>

\* No function has been called on its own.
NoArg == [fn |-> "none"]

NoRet == [fn |-> "none"]

\* A document that does not exist.
MISSING == [exists |-> FALSE]

\* Nothing has been read or written yet.
NoOutside ==
    [original |-> MISSING, source |-> MISSING, backup |-> MISSING,
     output |-> MISSING, failed_list |-> MISSING, console |-> << >>]

IdleFrame ==
    [stage |-> "idle", phase |-> "none", item |-> 0, ip |-> "", ci |-> 0,
     call |-> NoCall, client |-> "none", pending |-> NoResult,
     has_last_error |-> FALSE, last_error |-> "",
     identity_raw |-> EMPTY, wireless_raw |-> EMPTY, cred |-> NoCred,
     clock |-> 0, start |-> 0, duration |-> 0]

Command(stage) ==
    CASE stage = "identity"     -> COMMAND_IDENTITY
      [] stage = "wireless"     -> COMMAND_WIRELESS
      [] stage = "wireless_alt" -> COMMAND_WIRELESS_ALT
      [] stage = "export"       -> COMMAND_EXPORT

\* ------------------------------------------------------------------------
\* ssh_run
\* ------------------------------------------------------------------------

\* Faulty variant of ReturnValue: the output is tested as it is, without
\* strip().
ReturnValueNoStrip(out, err) == IF out # EMPTY THEN out ELSE err

\* line 76: return out if out.strip() else err
ReturnValue(out, err) == IF strip(out) # EMPTY THEN out ELSE err

\* Faulty variant of ClosesOn: the client is closed after the return
\* statement only, not in a finally clause.
ClosesOnReturnOnly(kind) == kind = "ret"

\* lines 77-78: the finally clause closes the client on every way out of the
\* try block, whatever the call ends with ("ret", "auth" or "exc").
ClosesOn(kind) == TRUE

\* The frame at the start of ssh_run(ip, cred[0], cred[1], command).
StartCall(f, stage, cred) ==
    [f EXCEPT !.stage = stage, !.phase = "connect",
              !.call = [ip |-> f.ip, username |-> cred[1],
                        password |-> cred[2], command |-> Command(stage)],
              !.client = "none", !.pending = NoResult]

\* ------------------------------------------------------------------------
\* process_ip and try_credentials, resumed when a session call ends
\* ------------------------------------------------------------------------

EMPTY_RESPONSE == "Empty response"

DEFAULT_ERROR == "Auth/connection failed"

NoRecord ==
    [ip |-> "", status |-> "", username |-> "", password |-> "",
     system_identity |-> EMPTY, ssids |-> EMPTY, radio_names |-> EMPTY,
     error |-> "", seconds |-> 0]

\* lines 144-154
FailRecord(f, error, duration) ==
    [ip |-> f.ip, status |-> "FAIL", username |-> "", password |-> "",
     system_identity |-> EMPTY, ssids |-> EMPTY, radio_names |-> EMPTY,
     error |-> error, seconds |-> duration]

\* lines 168-180
OkRecord(f, wireless_raw) ==
    LET parsed == parse_wireless(wireless_raw)
    IN  [ip |-> f.ip, status |-> "OK", username |-> f.cred[1],
         password |-> f.cred[2],
         system_identity |-> parse_identity(f.identity_raw),
         ssids |-> parsed.ssids, radio_names |-> parsed.radios,
         error |-> "", seconds |-> f.duration]

\* What resuming a frame comes to: the next session call ("call"), the
\* record process_ip returns ("return"), or an exception leaving process_ip
\* ("raise").
Goto(f) == [kind |-> "call", frame |-> f, record |-> NoRecord]

Return(rec) == [kind |-> "return", frame |-> IdleFrame, record |-> rec]

Raise == [kind |-> "raise", frame |-> IdleFrame, record |-> NoRecord]

\* Faulty variant of ExportLineKept: only the ssid= lines are kept.
ExportLineKeptSsidOnly(line) == Contains(line, MARK_SSID)

\* line 166: the export lines that are kept
ExportLineKept(line) == Contains(line, MARK_SSID) \/ Contains(line, MARK_RADIO)

\* lines 165-167: wireless_raw += '\n' + line, for every kept line
RECURSIVE MergeExport(_, _)
MergeExport(wireless_raw, lines) ==
    IF lines = << >> THEN wireless_raw
    ELSE MergeExport(IF ExportLineKept(Head(lines))
                     THEN wireless_raw \o <<"\n">> \o Head(lines)
                     ELSE wireless_raw,
                     Tail(lines))

\* Faulty variant of ExportCatches: the handler catches transport errors
\* and lets an authentication rejection through.
ExportCatchesTransportOnly(kind) == kind = "exc"

\* Faulty variant of ExportCatches: the export call is made outside any
\* try block.
ExportCatchesNothing(kind) == FALSE

\* line 161: except Exception
ExportCatches(kind) == kind \in {"auth", "exc"}

\* Faulty variant of ExportCred: the export call is made with the last
\* credential of the list.
ExportCredLast(f) == creds[Len(creds)]

\* line 160: the export call is made with the credential try_credentials
\* returned
ExportCred(f) == f.cred

\* lines 159-180: after the export call
AfterExport(f) ==
    LET r == f.pending
        export_raw == IF r.kind = "ret" THEN r.val ELSE EMPTY
    IN  IF r.kind # "ret" /\ ~ExportCatches(r.kind) THEN Raise
        ELSE Return(OkRecord(f, IF export_raw # EMPTY
                                THEN MergeExport(f.wireless_raw, splitlines(export_raw))
                                ELSE f.wireless_raw))

\* Faulty variant of AfterProbeOk: the export call is made whether or not
\* the wireless text is empty.
AfterProbeOkAlwaysExport(f) ==
    LET g == [f EXCEPT !.duration = f.clock - f.start]
    IN  Goto(StartCall(g, "export", ExportCred(g)))

\* lines 142-143, 156-158: try_credentials returned a credential
AfterProbeOk(f) ==
    LET g == [f EXCEPT !.duration = f.clock - f.start]
    IN  IF g.wireless_raw = EMPTY
        THEN Goto(StartCall(g, "export", ExportCred(g)))
        ELSE Return(OkRecord(g, g.wireless_raw))

\* lines 142-154: try_credentials returned no credential
AfterProbeFailed(f, error) == Return(FailRecord(f, error, f.clock - f.start))

\* Faulty variant of OnFailure: an authentication rejection leaves its
\* message in last_error too.
OnFailureRecordsAll(f, kind, msg) ==
    [f EXCEPT !.has_last_error = TRUE, !.last_error = msg]

\* Faulty variant of OnFailure: the first message is kept, later ones are
\* dropped.
OnFailureKeepsFirst(f, kind, msg) ==
    IF kind = "auth" \/ f.has_last_error THEN f
    ELSE [f EXCEPT !.has_last_error = TRUE, !.last_error = msg]

\* lines 103-108: an authentication rejection is skipped; any other
\* exception leaves its message in last_error
OnFailure(f, kind, msg) ==
    IF kind = "auth" THEN f
    ELSE [f EXCEPT !.has_last_error = TRUE, !.last_error = msg]

\* Faulty variant of NextCredential: the loop steps over one credential.
NextCredentialSkips(f) ==
    IF f.ci + 1 < Len(creds)
    THEN Goto(StartCall([f EXCEPT !.ci = f.ci + 2], "identity",
                        creds[f.ci + 2]))
    ELSE AfterProbeFailed(f, IF f.has_last_error THEN f.last_error
                             ELSE DEFAULT_ERROR)

\* lines 83, 109: continue with the next credential, or return
\* (None, {}, locals().get('last_error', 'Auth/connection failed'))
NextCredential(f) ==
    IF f.ci < Len(creds)
    THEN Goto(StartCall([f EXCEPT !.ci = f.ci + 1], "identity",
                        creds[f.ci + 1]))
    ELSE AfterProbeFailed(f, IF f.has_last_error THEN f.last_error
                             ELSE DEFAULT_ERROR)

\* Faulty variant of IdentityFailure: an empty response is skipped like an
\* authentication rejection.
IdentityFailureEmptySkipped(r) ==
    IF r.kind = "ret" THEN [kind |-> "auth", msg |-> AUTH_MSG]
    ELSE [kind |-> r.kind, msg |-> r.msg]

\* lines 87-88: what a failed identity attempt raises; an empty response
\* raises RuntimeError('Empty response')
IdentityFailure(r) ==
    IF r.kind = "ret" THEN [kind |-> "exc", msg |-> EMPTY_RESPONSE]
    ELSE [kind |-> r.kind, msg |-> r.msg]

\* lines 86-90, 92: after the identity call
AfterIdentity(f) ==
    LET r == f.pending
    IN  IF r.kind = "ret" /\ r.val # EMPTY
        THEN Goto(StartCall([f EXCEPT !.identity_raw = r.val], "wireless",
                            creds[f.ci]))
        ELSE LET e == IdentityFailure(r)
             IN  NextCredential(OnFailure(f, e.kind, e.msg))

\* Faulty variant of InnerCatches: the handlers around the wireless calls
\* catch authentication rejections only.
InnerCatchesAuthOnly(kind) == kind = "auth"

\* lines 93, 98: except Exception
InnerCatches(kind) == kind \in {"auth", "exc"}

\* Faulty variant of AfterWireless: the alternate wireless command is left
\* out; a primary command that failed or returned nothing ends the probe
\* with an empty wireless text.
AfterWirelessNoAlt(f) ==
    LET r == f.pending
        wireless_raw == IF r.kind = "ret" THEN r.val ELSE EMPTY
    IN  IF r.kind # "ret" /\ ~InnerCatches(r.kind)
        THEN NextCredential(OnFailure(f, r.kind, r.msg))
        ELSE AfterProbeOk([f EXCEPT !.wireless_raw = wireless_raw,
                                    !.cred = creds[f.ci]])

\* lines 91-97: after the primary wireless call
AfterWireless(f) ==
    LET r == f.pending
        wireless_raw == IF r.kind = "ret" THEN r.val ELSE EMPTY
    IN  IF r.kind # "ret" /\ ~InnerCatches(r.kind)
        THEN NextCredential(OnFailure(f, r.kind, r.msg))
        ELSE IF wireless_raw = EMPTY
        THEN Goto(StartCall(f, "wireless_alt", creds[f.ci]))
        ELSE AfterProbeOk([f EXCEPT !.wireless_raw = wireless_raw,
                                    !.cred = creds[f.ci]])

\* Faulty variant of AfterWirelessAlt: an alternate call that failed or
\* returned nothing is made again.
AfterWirelessAltRetries(f) ==
    LET r == f.pending
        wireless_raw == IF r.kind = "ret" THEN r.val ELSE EMPTY
    IN  IF wireless_raw = EMPTY
        THEN Goto(StartCall(f, "wireless_alt", creds[f.ci]))
        ELSE AfterProbeOk([f EXCEPT !.wireless_raw = wireless_raw,
                                    !.cred = creds[f.ci]])

\* lines 96-102: after the alternate wireless call
AfterWirelessAlt(f) ==
    LET r == f.pending
        wireless_raw == IF r.kind = "ret" THEN r.val ELSE EMPTY
    IN  IF r.kind # "ret" /\ ~InnerCatches(r.kind)
        THEN NextCredential(OnFailure(f, r.kind, r.msg))
        ELSE AfterProbeOk([f EXCEPT !.wireless_raw = wireless_raw,
                                    !.cred = creds[f.ci]])

\* The caller's code from the return of one session call to the start of
\* the next one, or to the end of process_ip.
Resume(f) ==
    CASE f.stage = "identity"     -> AfterIdentity(f)
      [] f.stage = "wireless"     -> AfterWireless(f)
      [] f.stage = "wireless_alt" -> AfterWirelessAlt(f)
      [] f.stage = "export"       -> AfterExport(f)

\* ------------------------------------------------------------------------
\* The worker pool of main()
\* ------------------------------------------------------------------------

Pending == [state |-> "pending", record |-> NoRecord]

Running == [state |-> "running", record |-> NoRecord]

\* Faulty variant of NextFuture: the results are yielded last item first.
NextFutureReversed(pos) == Len(ips) + 1 - pos

\* line 237: pool.map yields the results in the order the items were
\* submitted; the pos-th result is the one of item pos.
NextFuture(pos) == pos

\* line 140: a frame of process_ip(ips[item]), about to make the first
\* identity call
StartProcess(item) ==
    StartCall([IdleFrame EXCEPT !.item = item, !.ip = ips[item], !.ci = 1],
              "identity", creds[1])

\* The state in main() once pool.map has submitted every address (line 237):
\* all work items queued, the pool threads idle.
InitWith(list, credentials) ==
    /\ ips = list
    /\ creds = credentials
    /\ worker = [w \in Workers |-> IdleFrame]
    /\ future = [i \in 1..Len(list) |-> Pending]
    /\ nextItem = 1
    /\ results = << >>
    /\ mainPc = "map"
    /\ mainPos = 1
    /\ finishOrder = << >>
    /\ conns = [w \in Workers |-> 0]
    /\ log = [i \in 1..Len(list) |-> << >>]

\* A run over the first n addresses, for every n up to MaxIps, with the
\* first PoolCreds credentials of the list.
Init ==
    /\ \E n \in 0..MaxIps :
          InitWith(SubSeq(ADDRS, 1, n), SubSeq(CREDENTIALS, 1, PoolCreds))
    /\ arg = NoArg
    /\ ret = NoRet
    /\ outside = NoOutside

\* A run over one address with the whole credential list.
InitProbe ==
    /\ InitWith(SubSeq(ADDRS, 1, 1), CREDENTIALS)
    /\ arg = NoArg
    /\ ret = NoRet
    /\ outside = NoOutside

\* A pool thread takes the next work item off the queue and enters
\* process_ip.  Idle threads are interchangeable: the lowest one takes it.
Take(w) ==
    /\ worker[w].stage = "idle"
    /\ \A v \in Workers : v < w => worker[v].stage # "idle"
    /\ nextItem <= Len(ips)
    /\ worker' = [worker EXCEPT ![w] = StartProcess(nextItem)]
    /\ future' = [future EXCEPT ![nextItem] = Running]
    /\ nextItem' = nextItem + 1
    /\ UNCHANGED <<ips, creds, results, mainPc, mainPos, finishOrder, conns>>

\* line 72: client.connect.  The connection is refused or times out (no
\* socket is left open), or the socket opens and the credential is rejected,
\* or the session is established.
Connect(w, env) ==
    /\ worker[w].phase = "connect"
    /\ \/ \E m \in env.msgs :
            /\ worker' = [worker EXCEPT ![w].phase = "finally",
                              ![w].pending = [kind |-> "exc", val |-> EMPTY, msg |-> m]]
            /\ UNCHANGED conns
       \/ /\ worker' = [worker EXCEPT ![w].phase = "finally",
                              ![w].client = "open",
                              ![w].pending = [kind |-> "auth", val |-> EMPTY, msg |-> AUTH_MSG]]
          /\ conns' = [conns EXCEPT ![w] = @ + 1]
       \/ /\ worker' = [worker EXCEPT ![w].phase = "exec", ![w].client = "open"]
          /\ conns' = [conns EXCEPT ![w] = @ + 1]
    /\ UNCHANGED <<ips, creds, future, nextItem, results, mainPc, mainPos, finishOrder>>

\* lines 73-76: exec_command and the two reads.  The command times out or the
\* transport breaks, or both streams are read and the value is chosen.
Exec(w, env) ==
    /\ worker[w].phase = "exec"
    /\ \/ \E m \in env.msgs :
            worker' = [worker EXCEPT ![w].phase = "finally",
                           ![w].pending = [kind |-> "exc", val |-> EMPTY, msg |-> m]]
       \/ \E r \in env.outs[worker[w].stage] :
            worker' = [worker EXCEPT ![w].phase = "finally",
                           ![w].pending = [kind |-> "ret",
                                           val |-> ReturnValue(r.out, r.err),
                                           msg |-> ""]]
    /\ UNCHANGED <<ips, creds, future, nextItem, results, mainPc, mainPos, finishOrder, conns>>

\* lines 77-78 and the caller's code up to its next session call: the client
\* is closed, ssh_run returns or raises, and process_ip runs on until it
\* starts another session call, returns its record or lets an exception out.
Finally(w) ==
    /\ worker[w].phase = "finally"
    /\ LET f   == [worker[w] EXCEPT !.clock = @ + 1]
           out == Resume(f)
       IN  /\ conns' = [conns EXCEPT ![w] =
                          IF f.client = "open" /\ ClosesOn(f.pending.kind)
                          THEN @ - 1 ELSE @]
           /\ worker' = [worker EXCEPT ![w] = out.frame]
           /\ future' = [future EXCEPT ![f.item] =
                          CASE out.kind = "call"   -> @
                            [] out.kind = "return" -> [state |-> "done", record |-> out.record]
                            [] out.kind = "raise"  -> [state |-> "raised", record |-> NoRecord]]
           /\ finishOrder' = IF out.kind = "call" THEN finishOrder
                             ELSE Append(finishOrder, f.item)
    /\ UNCHANGED <<ips, creds, nextItem, results, mainPc, mainPos>>

\* lines 237-239: the next result of pool.map is there; main appends it and
\* prints its progress line.  A future that holds an exception makes the
\* iterator raise it in main, which leaves the loop.
MainCollect ==
    /\ mainPc = "map"
    /\ mainPos <= Len(ips)
    /\ future[NextFuture(mainPos)].state \in {"done", "raised"}
    /\ IF future[NextFuture(mainPos)].state = "done"
       THEN /\ results' = Append(results, future[NextFuture(mainPos)].record)
            /\ mainPos' = mainPos + 1
            /\ mainPc' = mainPc
       ELSE /\ mainPc' = "aborted"
            /\ UNCHANGED <<results, mainPos>>
    /\ UNCHANGED <<ips, creds, worker, future, nextItem, finishOrder, conns>>

\* line 240: the iterator is exhausted; main leaves the with block.
MainDone ==
    /\ mainPc = "map"
    /\ mainPos > Len(ips)
    /\ mainPc' = "done"
    /\ UNCHANGED <<ips, creds, worker, future, nextItem, results, mainPos, finishOrder, conns>>

\* The session calls of a work item, as a test double of ssh_run would
\* record them: the arguments when the call starts, the outcome when it ends.
LogCall(w) ==
    log' = [log EXCEPT ![worker[w].item] =
              Append(@, [call |-> worker[w].call, result |-> NoResult])]

LogResult(w) ==
    log' = [log EXCEPT ![worker[w].item] =
              [@ EXCEPT ![Len(@)].result = worker[w].pending]]

\* A run of main() over up to MaxIps addresses.
Next ==
    \/ \E w \in Workers : Take(w) /\ UNCHANGED <<log, arg, ret, outside>>
    \/ \E w \in Workers : Connect(w, PoolEnv) /\ UNCHANGED <<log, arg, ret, outside>>
    \/ \E w \in Workers : Exec(w, PoolEnv) /\ UNCHANGED <<log, arg, ret, outside>>
    \/ \E w \in Workers : Finally(w) /\ UNCHANGED <<log, arg, ret, outside>>
    \/ MainCollect /\ UNCHANGED <<log, arg, ret, outside>>
    \/ MainDone /\ UNCHANGED <<log, arg, ret, outside>>

Spec == Init /\ [][Next]_vars

\* What one pool thread does next.
WorkerStep(w) ==
    /\ Take(w) \/ Connect(w, FairEnv) \/ Exec(w, FairEnv) \/ Finally(w)
    /\ UNCHANGED <<log, arg, ret, outside>>

\* What the main thread does next.
MainStep ==
    /\ MainCollect \/ MainDone
    /\ UNCHANGED <<log, arg, ret, outside>>

\* A run of main() in which every thread that can take a step eventually
\* takes one: the operating system schedules every pool thread and the main
\* thread, and every connect, exec_command and read is bounded by
\* SSH_TIMEOUT (line 72, 73), so a session call returns or raises.
NextFair ==
    \/ \E w \in Workers : WorkerStep(w)
    \/ MainStep

\* A run over at most FairIps addresses.
InitFair == Init /\ Len(ips) <= FairIps

SpecFair ==
    /\ InitFair
    /\ [][NextFair]_vars
    /\ \A w \in Workers : WF_vars(WorkerStep(w))
    /\ WF_vars(MainStep)

\* A run of main() over one address, every session call logged.
NextProbe ==
    \/ \E w \in Workers : Take(w) /\ UNCHANGED <<log, arg, ret, outside>>
    \/ \E w \in Workers : Connect(w, ProbeEnv) /\ LogCall(w) /\ UNCHANGED <<arg, ret, outside>>
    \/ \E w \in Workers : Exec(w, ProbeEnv) /\ UNCHANGED <<log, arg, ret, outside>>
    \/ \E w \in Workers : Finally(w) /\ LogResult(w) /\ UNCHANGED <<arg, ret, outside>>
    \/ MainCollect /\ UNCHANGED <<log, arg, ret, outside>>
    \/ MainDone /\ UNCHANGED <<log, arg, ret, outside>>

SpecProbe == InitProbe /\ [][NextProbe]_vars

\* ------------------------------------------------------------------------
\* matching_pipeline.py: the pure functions
\* ------------------------------------------------------------------------

\* The class [A-Za-z] on one character.
IsLetter(c) == ord(c) \in (65..90) \cup (97..122)

\* str.lower() and str.upper() of one character.
LowerChar(c) == IF ord(c) \in 65..90 THEN ASCII[ord(c) + 32 - 31] ELSE c
UpperChar(c) == IF ord(c) \in 97..122 THEN ASCII[ord(c) - 32 - 31] ELSE c

\* str.lower()
lower(s) == [i \in 1..Len(s) |-> LowerChar(s[i])]

\* str.title(): a letter that follows no letter is upper case, any other
\* letter lower case.
title(s) ==
    [i \in 1..Len(s) |->
        IF i = 1 \/ ~IsLetter(s[i - 1]) THEN UpperChar(s[i]) ELSE LowerChar(s[i])]

\* re.sub(r"\s+", " ", s)
RECURSIVE CollapseSpaces(_)
CollapseSpaces(s) ==
    IF s = EMPTY THEN EMPTY
    ELSE IF IsSpace(Head(s)) THEN <<" ">> \o CollapseSpaces(lstrip(s))
    ELSE <<Head(s)>> \o CollapseSpaces(Tail(s))

\* " ".join(list)
RECURSIVE JoinSpaces(_)
JoinSpaces(list) ==
    IF list = << >> THEN EMPTY
    ELSE IF Len(list) = 1 THEN list[1]
    ELSE list[1] \o <<" ">> \o JoinSpaces(Tail(list))

\* str.split() without a separator: the runs without white space.
RECURSIVE Words(_)
Words(s) ==
    LET rest == lstrip(s)
    IN  IF rest = EMPTY THEN << >>
        ELSE <<NonSpaceRun(rest)>> \o Words(Drop(rest, Len(NonSpaceRun(rest)) + 1))

\* lines 86-93: the cells that are there and not blank, stripped (a missing
\* cell is the empty text)
NonBlank(values) ==
    SelectSeq([i \in DOMAIN values |-> strip(values[i])], LAMBDA v : v # EMPTY)

\* lines 68-97
compile_contact_name(row) ==
    LET named == NonBlank(row.parts)
        parts == IF named = << >> THEN NonBlank(<<row.file_as>>) ELSE named
    IN  strip(CollapseSpaces(JoinSpaces(parts)))

\* lines 123-132
FORBIDDEN ==
    << Text("samsung"), Text("iphone"), Text("series"), Text("watch"),
       Text("phone"), Text("camera"), Text("gear"), Text("unknown") >>

\* lines 100-137
name_is_valid(name) ==
    /\ name \notin {EMPTY, Text("."), Text("--")}
    /\ \A i \in 1..Len(name) : ~IsDigit(name[i])
    /\ Len(name) >= 3
    /\ \A k \in DOMAIN FORBIDDEN : ~Contains(lower(name), FORBIDDEN[k])
    /\ \E i \in 1..Len(name) : IsLetter(name[i])

\* str.lstrip("0")
RECURSIVE LstripZeros(_)
LstripZeros(s) ==
    IF s # EMPTY /\ Head(s) = "0" THEN LstripZeros(Tail(s)) ELSE s

\* lines 140-168, with the default country code
normalize_phone_number(raw) ==
    IF raw = EMPTY THEN EMPTY
    ELSE LET s == SelectSeq(raw, LAMBDA c : IsDigit(c) \/ c = "+")
         IN  IF s # EMPTY /\ Head(s) = "+" THEN s
             ELSE IF MatchAt(s, <<"0", "0">>, 1) THEN <<"+">> \o Drop(s, 3)
             ELSE Text("+961") \o LstripZeros(s)

\* Faulty variant of Remember: a later row replaces the name of a phone
\* already seen.
RememberLast(seen, phone, name) ==
    IF \E k \in DOMAIN seen : seen[k].phone = phone
    THEN [k \in DOMAIN seen |->
             IF seen[k].phone = phone THEN [seen[k] EXCEPT !.name = name]
             ELSE seen[k]]
    ELSE Append(seen, [phone |-> phone, name |-> name])

\* lines 197-198: seen, a dict in insertion order, after one phone
Remember(seen, phone, name) ==
    IF \E k \in DOMAIN seen : seen[k].phone = phone
    THEN seen
    ELSE Append(seen, [phone |-> phone, name |-> name])

\* lines 192-198: the phone columns of one row
RECURSIVE PhoneLoop(_, _, _)
PhoneLoop(values, name, seen) ==
    IF values = << >> THEN seen
    ELSE LET value == Head(values)
             phone == normalize_phone_number(value)
         IN  PhoneLoop(Tail(values), name,
                       IF strip(value) # EMPTY /\ phone # EMPTY
                       THEN Remember(seen, phone, name)
                       ELSE seen)

\* lines 188-198: the rows of the contacts file
RECURSIVE ContactsLoop(_, _)
ContactsLoop(rows, seen) ==
    IF rows = << >> THEN seen
    ELSE LET name == compile_contact_name(Head(rows))
         IN  ContactsLoop(Tail(rows),
                          IF name_is_valid(name)
                          THEN PhoneLoop(Head(rows).phones, name, seen)
                          ELSE seen)

\* lines 171-200: the (name, phone) pairs
parse_contacts(rows) ==
    LET seen == ContactsLoop(rows, << >>)
    IN  [k \in DOMAIN seen |-> <<seen[k].name, seen[k].phone>>]

\* lines 203-229
prepare_account_name(row, prefix) ==
    IF strip(row.full) # EMPTY THEN strip(row.full)
    ELSE LET username == IF MatchAt(row.username, prefix, 1)
                         THEN Drop(row.username, Len(prefix) + 1)
                         ELSE row.username
             parts    == SelectSeq(split(username, "_"), LAMBDA x : x # EMPTY)
         IN  JoinSpaces([k \in DOMAIN parts |-> title(parts[k])])

\* list.sort() of a list of texts, by insertion.
RECURSIVE Insert(_, _)
Insert(x, list) ==
    IF list = << >> THEN <<x>>
    ELSE IF StrLess(x, Head(list)) THEN <<x>> \o list
    ELSE <<Head(list)>> \o Insert(x, Tail(list))

RECURSIVE SortList(_)
SortList(list) ==
    IF list = << >> THEN << >> ELSE Insert(Head(list), SortList(Tail(list)))

\* One row of the table of the longest common subsequence: the row of
\* character c from the row before it, column by column.
RECURSIVE LcsRow(_, _, _, _)
LcsRow(prev, c, b, acc) ==
    LET j == Len(acc)
    IN  IF j > Len(b) THEN acc
        ELSE LcsRow(prev, c, b,
                    Append(acc, IF b[j] = c THEN prev[j] + 1
                                ELSE IF prev[j + 1] >= acc[j] THEN prev[j + 1]
                                ELSE acc[j]))

RECURSIVE LcsRows(_, _, _)
LcsRows(a, b, prev) ==
    IF a = << >> THEN prev[Len(b) + 1]
    ELSE LcsRows(Tail(a), b, LcsRow(prev, Head(a), b, <<0>>))

\* The length of the longest common subsequence of two texts.
Lcs(a, b) == LcsRows(a, b, [j \in 1..(Len(b) + 1) |-> 0])

\* rapidfuzz.fuzz.ratio: the normalized Indel similarity times 100, that is
\* 200 * Lcs / (len + len), kept as a fraction; 100 for two empty texts.
ratio(a, b) ==
    IF Len(a) + Len(b) = 0 THEN [num |-> 100, den |-> 1]
    ELSE [num |-> 200 * Lcs(a, b), den |-> Len(a) + Len(b)]

\* rapidfuzz.fuzz.token_sort_ratio: the ratio of the texts with their words
\* sorted and joined by one space.
token_sort_ratio(a, b) ==
    ratio(JoinSpaces(SortList(Words(a))), JoinSpaces(SortList(Words(b))))

\* x > y and x >= t on fractions.
Greater(x, y) == x.num * y.den > y.num * x.den
AtLeast(x, t) == x.num >= t * x.den

\* lines 274-276: no contact compared yet
NoBest == [score |-> [num |-> 0, den |-> 1], phone |-> EMPTY, name |-> EMPTY]

\* lines 277-282: the contacts compared with one account name, in order
RECURSIVE BestLoop(_, _, _)
BestLoop(acc_name, contact_items, best) ==
    IF contact_items = << >> THEN best
    ELSE LET phone == Head(contact_items)[1]
             name  == Head(contact_items)[2]
             score == token_sort_ratio(lower(acc_name), lower(name))
         IN  BestLoop(acc_name, Tail(contact_items),
                      IF Greater(score, best.score)
                      THEN [score |-> score, phone |-> phone, name |-> name]
                      ELSE best)

\* lines 261-288: one customer row after the matching
MatchRow(row, contact_items, prefix, threshold) ==
    LET acc_name == prepare_account_name(row, prefix)
        best     == BestLoop(acc_name, contact_items, NoBest)
        blank    == [account_name |-> acc_name, matched_phone |-> EMPTY,
                     matched_name |-> EMPTY, score |-> NoBest.score]
    IN  IF acc_name = EMPTY THEN blank
        ELSE IF AtLeast(best.score, threshold)
        THEN [blank EXCEPT !.matched_phone = best.phone,
                           !.matched_name = best.name, !.score = best.score]
        ELSE [blank EXCEPT !.score = best.score]

\* lines 290-292
matched_phones(rows, threshold) ==
    {rows[k].matched_phone : k \in {i \in DOMAIN rows : AtLeast(rows[i].score, threshold)}}

\* Faulty variant of Leftover: every contact is left over.
LeftoverKeepsMatched(contact_items, matched) ==
    [k \in DOMAIN contact_items |-> <<contact_items[k][2], contact_items[k][1]>>]

\* lines 294-298
Leftover(contact_items, matched) ==
    LET left == SelectSeq(contact_items, LAMBDA item : item[1] \notin matched)
    IN  [k \in DOMAIN left |-> <<left[k][2], left[k][1]>>]

\* lines 232-299: the customer rows and the leftover contacts
match_accounts(customers, contacts, prefix, threshold) ==
    LET contact_items == [k \in DOMAIN contacts |-> <<contacts[k][2], contacts[k][1]>>]
        rows == [k \in DOMAIN customers |->
                    MatchRow(customers[k], contact_items, prefix, threshold)]
    IN  [rows |-> rows,
         leftover |-> Leftover(contact_items, matched_phones(rows, threshold))]

\* ------------------------------------------------------------------------
\* The functions called on their own
\* ------------------------------------------------------------------------

\* The lists of at most n elements of S.
SeqsUpTo(S, n) == UNION {[1..k -> S] : k \in 0..n}

\* '\n'.join(lines)
RECURSIVE JoinLines(_)
JoinLines(lines) ==
    IF lines = << >> THEN EMPTY
    ELSE IF Len(lines) = 1 THEN lines[1]
    ELSE lines[1] \o <<"\n">> \o JoinLines(Tail(lines))

\* Lines of wireless output, each with the values it holds (the empty text
\* when it holds none).
WIRELESS_LINES ==
    << [text  |-> Text(" 0 ssid=\"Net-A\" radio-name=\"R2\""),
        ssid  |-> Text("Net-A"), radio |-> Text("R2")],
       [text  |-> Text(" 1 ssid=\"Net-B\" radio-name=\"R1\""),
        ssid  |-> Text("Net-B"), radio |-> Text("R1")],
       [text  |-> Text("ssid=Net-B"),
        ssid  |-> Text("Net-B"), radio |-> EMPTY],
       [text  |-> Text("set radio-name=\"R1\" mode=ap"),
        ssid  |-> EMPTY, radio |-> Text("R1")],
       [text  |-> Text(" 2 name=\"wlan1\" mtu=1500"),
        ssid  |-> EMPTY, radio |-> EMPTY] >>

\* Lines of identity output: a name: line ("colon"), a set name= line
\* ("set") or neither ("none"), each with the name it holds.
IDENTITY_LINES ==
    << [text |-> Text("name: Router7"), kind |-> "colon", name |-> Text("Router7")],
       [text |-> Text("set name=\"Gateway-1\""), kind |-> "set", name |-> Text("Gateway-1")],
       [text |-> Text("      name: R1  "), kind |-> "colon", name |-> Text("R1")],
       [text |-> Text("/system identity"), kind |-> "none", name |-> EMPTY],
       [text |-> Text("/system identity set name=Core"), kind |-> "set", name |-> Text("Core")] >>

\* What a command can write to a stream.
STREAMS ==
    {EMPTY, Text("\n"), Text("  \n "), Text("name: R1\n"), Text("err\n"),
     Text(" bad command name\n")}

\* Cells of the address column, each with the address it stands for (the
\* empty text when it stands for none).
CELLS ==
    << [text |-> Text("10.0.0.1"), address |-> Text("10.0.0.1")],
       [text |-> Text(" 10.0.0.2 "), address |-> Text("10.0.0.2")],
       [text |-> Text("gw 10.0.0.1 (main)"), address |-> Text("10.0.0.1")],
       [text |-> Text("999.0.0.1 10.0.0.3"), address |-> EMPTY],
       [text |-> Text("n/a"), address |-> EMPTY],
       [text |-> Text("10.0.0.2 10.0.0.9"), address |-> Text("10.0.0.2")],
       [text |-> EMPTY, address |-> EMPTY] >>

\* Rows of the contacts file: the First, Middle, Last Name and Nickname
\* cells, the File As cell and the phone cells (a missing cell is the empty
\* text), each with the name it assembles to, whether that name is valid and
\* the normalized numbers of its phone cells.
CONTACT_ROWS ==
    << [parts |-> <<Text("Ali"), EMPTY, EMPTY, EMPTY>>, file_as |-> EMPTY,
        phones |-> <<Text("03 111")>>,
        name |-> Text("Ali"), valid |-> TRUE, numbers |-> <<Text("+9613111")>>],
       [parts |-> <<EMPTY, EMPTY, EMPTY, EMPTY>>, file_as |-> Text("Sam  Haddad"),
        phones |-> <<Text("+9613111"), Text("0096170222")>>,
        name |-> Text("Sam Haddad"), valid |-> TRUE,
        numbers |-> <<Text("+9613111"), Text("+96170222")>>],
       [parts |-> <<Text("My"), EMPTY, Text("iPhone"), EMPTY>>, file_as |-> EMPTY,
        phones |-> <<Text("70222"), Text("71333")>>,
        name |-> Text("My iPhone"), valid |-> FALSE,
        numbers |-> <<Text("+96170222"), Text("+96171333")>>],
       [parts |-> <<Text(" Mona "), EMPTY, EMPTY, Text("K")>>, file_as |-> Text("x"),
        phones |-> <<Text(" "), Text("70-222")>>,
        name |-> Text("Mona K"), valid |-> TRUE, numbers |-> <<Text("+96170222")>>],
       [parts |-> <<Text("Al"), EMPTY, EMPTY, EMPTY>>, file_as |-> EMPTY,
        phones |-> <<Text("03111")>>,
        name |-> Text("Al"), valid |-> FALSE, numbers |-> <<Text("+9613111")>>] >>

\* Customer rows: the Full Name cell (missing: the empty text) and the
\* Username cell, each with the account name it gets.
ACCOUNTS ==
    << [full |-> Text("Ali"), username |-> Text("kyrillos_x"), name |-> Text("Ali")],
       [full |-> EMPTY, username |-> Text("kyrillos_sam_haddad"), name |-> Text("Sam Haddad")],
       [full |-> Text(" "), username |-> Text("kyrillos_"), name |-> EMPTY],
       [full |-> EMPTY, username |-> Text("zed"), name |-> Text("Zed")] >>

\* Parsed contacts: (name, phone) pairs with valid names and distinct
\* numbers, as parse_contacts returns them.
CONTACTS ==
    << <<Text("ALI"), Text("+1")>>,
       <<Text("Haddad Sam"), Text("+2")>>,
       <<Text("Bob"), Text("+3")>>,
       <<Text("Alx"), Text("+4")>> >>

\* The similarity of the account name of each ACCOUNTS row (rows) to the
\* name of each CONTACTS pair (columns), as a fraction.
SIMILARITY ==
    << << [num |-> 600, den |-> 6], [num |-> 200, den |-> 13],
          [num |-> 0, den |-> 6], [num |-> 400, den |-> 6] >>,
       << [num |-> 200, den |-> 13], [num |-> 2000, den |-> 20],
          [num |-> 0, den |-> 13], [num |-> 200, den |-> 13] >>,
       << [num |-> 0, den |-> 3], [num |-> 0, den |-> 10],
          [num |-> 0, den |-> 3], [num |-> 0, den |-> 3] >>,
       << [num |-> 0, den |-> 6], [num |-> 200, den |-> 13],
          [num |-> 0, den |-> 6], [num |-> 0, den |-> 6] >> >>

\* line 375: the default of --prefix
PREFIX == Text("kyrillos_")

\* Values of --threshold.
THRESHOLDS == {0, 67, 100}

\* The calls made: which function, on what.  "of" names the lines or cells
\* the argument was put together from.
UnitArgs ==
    {[fn |-> "parse_wireless", of |-> ls, raw |-> JoinLines([k \in DOMAIN ls |-> WIRELESS_LINES[ls[k]].text])] :
        ls \in SeqsUpTo(DOMAIN WIRELESS_LINES, MaxLines)}
    \cup {[fn |-> "parse_identity", of |-> ls,
           raw |-> JoinLines([k \in DOMAIN ls |-> IDENTITY_LINES[ls[k]].text]) \o end] :
            ls \in SeqsUpTo(DOMAIN IDENTITY_LINES, MaxIdLines), end \in {EMPTY, <<"\n">>}}
    \cup {[fn |-> "ssh_run", out |-> o, err |-> e] : o \in STREAMS, e \in STREAMS}
    \cup {[fn |-> "load_ip_list", of |-> cs, column |-> [k \in DOMAIN cs |-> CELLS[cs[k]].text]] :
            cs \in SeqsUpTo(DOMAIN CELLS, MaxCells)}
    \cup {[fn |-> "parse_contacts", of |-> rs,
           rows |-> [k \in DOMAIN rs |->
                        [parts   |-> CONTACT_ROWS[rs[k]].parts,
                         file_as |-> CONTACT_ROWS[rs[k]].file_as,
                         phones  |-> CONTACT_ROWS[rs[k]].phones]]] :
            rs \in SeqsUpTo(DOMAIN CONTACT_ROWS, MaxContactRows)}
    \cup {[fn |-> "match_accounts", accounts |-> as, of |-> cs,
           customers |-> [k \in DOMAIN as |->
                             [full |-> ACCOUNTS[as[k]].full,
                              username |-> ACCOUNTS[as[k]].username]],
           contacts |-> [k \in DOMAIN cs |-> CONTACTS[cs[k]]],
           threshold |-> t] :
            as \in SeqsUpTo(DOMAIN ACCOUNTS, MaxAccounts),
            cs \in {q \in SeqsUpTo(DOMAIN CONTACTS, MaxContacts) :
                       \A i, j \in DOMAIN q : i # j => q[i] # q[j]},
            t \in THRESHOLDS}

\* One call of one function; the program's run is at its start, with one
\* address and the whole credential list.
InitUnit ==
    /\ InitWith(SubSeq(ADDRS, 1, 1), CREDENTIALS)
    /\ arg \in UnitArgs
    /\ ret = NoRet
    /\ outside = NoOutside

CallParseWireless ==
    /\ arg.fn = "parse_wireless"
    /\ ret = NoRet
    /\ ret' = [fn |-> "parse_wireless", val |-> parse_wireless(arg.raw)]
    /\ UNCHANGED <<ips, creds, worker, future, nextItem, results, mainPc, mainPos,
                   finishOrder, conns, log, arg, outside>>

CallParseIdentity ==
    /\ arg.fn = "parse_identity"
    /\ ret = NoRet
    /\ ret' = [fn |-> "parse_identity", val |-> parse_identity(arg.raw)]
    /\ UNCHANGED <<ips, creds, worker, future, nextItem, results, mainPc, mainPos,
                   finishOrder, conns, log, arg, outside>>

\* lines 74-76 and 86-88: the identity call of the first credential reads the
\* two streams and returns; try_credentials goes on with the value.
CallSshRun ==
    /\ arg.fn = "ssh_run"
    /\ ret = NoRet
    /\ LET val  == ReturnValue(arg.out, arg.err)
           f    == [StartProcess(1) EXCEPT
                      !.phase = "finally",
                      !.pending = [kind |-> "ret", val |-> val, msg |-> ""]]
           next == AfterIdentity(f)
       IN  ret' = [fn |-> "ssh_run", val |-> val,
                   stage |-> next.frame.stage, ci |-> next.frame.ci]
    /\ UNCHANGED <<ips, creds, worker, future, nextItem, results, mainPc, mainPos,
                   finishOrder, conns, log, arg, outside>>

CallLoadIpList ==
    /\ arg.fn = "load_ip_list"
    /\ ret = NoRet
    /\ ret' = [fn |-> "load_ip_list", val |-> load_ip_list(arg.column)]
    /\ UNCHANGED <<ips, creds, worker, future, nextItem, results, mainPc, mainPos,
                   finishOrder, conns, log, arg, outside>>

CallParseContacts ==
    /\ arg.fn = "parse_contacts"
    /\ ret = NoRet
    /\ ret' = [fn |-> "parse_contacts", val |-> parse_contacts(arg.rows)]
    /\ UNCHANGED <<ips, creds, worker, future, nextItem, results, mainPc, mainPos,
                   finishOrder, conns, log, arg, outside>>

CallMatchAccounts ==
    /\ arg.fn = "match_accounts"
    /\ ret = NoRet
    /\ LET val == match_accounts(arg.customers, arg.contacts, PREFIX, arg.threshold)
       IN  ret' = [fn |-> "match_accounts", rows |-> val.rows,
                   leftover |-> val.leftover]
    /\ UNCHANGED <<ips, creds, worker, future, nextItem, results, mainPc, mainPos,
                   finishOrder, conns, log, arg, outside>>

NextUnit ==
    \/ CallParseWireless
    \/ CallParseIdentity
    \/ CallSshRun
    \/ CallLoadIpList
    \/ CallParseContacts
    \/ CallMatchAccounts

SpecUnit == InitUnit /\ [][NextUnit]_vars

\* ------------------------------------------------------------------------
\* main() after the pool block: the report files and the merge
\* ------------------------------------------------------------------------

\* A record as process_ip returns it for an address that answered or not.
ReportRecord(ip, status) ==
    IF status = "OK"
    THEN [NoRecord EXCEPT !.ip = ip, !.status = "OK", !.username = "admin",
                          !.password = "admin", !.system_identity = Text("R1"),
                          !.ssids = Text("A"), !.seconds = 2]
    ELSE [NoRecord EXCEPT !.ip = ip, !.status = "FAIL", !.error = DEFAULT_ERROR,
                          !.seconds = 4]

\* A row of the source workbook: the cell of the address column and the
\* result columns (RESULT_COLUMNS, lines 36-38), empty before the merge.
SourceRow(cell) ==
    [cell |-> cell, ssh_status |-> "", ssh_username |-> "", ssh_password |-> "",
     system_identity |-> EMPTY, wireless_ssids |-> EMPTY, radio_names |-> EMPTY,
     ssh_error |-> ""]

\* Cells of the address column of the source workbook.
SOURCE_CELLS == {Text("10.0.0.1"), Text("gw 10.0.0.2"), Text("n/a")}

\* A workbook; narrow when it has fewer columns than the column letter
\* names.
Workbook(rows, narrow) == [exists |-> TRUE, intact |-> TRUE, narrow |-> narrow, rows |-> rows]

\* A workbook whose writing stopped half way.
DAMAGED == [exists |-> TRUE, intact |-> FALSE, narrow |-> FALSE, rows |-> << >>]

\* lines 203, 213: result_map.get(ip): the records of the address, the last
\* one being the one the dict keeps.
RecordsOf(token) == {k \in 1..Len(results) : Text(results[k].ip) = token}

\* lines 208-222: one row after the merge
MergeRow(row) ==
    LET m == IpLikeToken(row.cell)
    IN  IF m = {} THEN row
        ELSE LET found == RecordsOf(CHOOSE t \in m : TRUE)
             IN  IF found = {} THEN row
                 ELSE LET data == results[CHOOSE k \in found : \A j \in found : j <= k]
                      IN  [row EXCEPT !.ssh_status = data.status,
                                      !.ssh_username = data.username,
                                      !.ssh_password = data.password,
                                      !.system_identity = data.system_identity,
                                      !.wireless_ssids = data.ssids,
                                      !.radio_names = data.radio_names,
                                      !.ssh_error = data.error]

\* lines 196-224: the workbook that is written back
Merged(book) == [book EXCEPT !.rows = [k \in DOMAIN book.rows |-> MergeRow(book.rows[k])]]

\* line 242: the addresses of the records that are not OK
RECURSIVE failed_ips(_)
failed_ips(records) ==
    IF records = << >> THEN << >>
    ELSE (IF Head(records).status # "OK" THEN <<Head(records).ip>> ELSE << >>)
             \o failed_ips(Tail(records))

\* The pool block is over with one record per address; the source workbook
\* is on disk, no backup and no report file yet.
InitReport ==
    /\ \E n \in 0..MaxIps :
          /\ InitWith(SubSeq(ADDRS, 1, n), SubSeq(CREDENTIALS, 1, PoolCreds))
    /\ arg = NoArg
    /\ ret = NoRet
    /\ \E rows \in SeqsUpTo(SOURCE_CELLS, MaxRows), narrow \in BOOLEAN :
          LET book == Workbook([k \in DOMAIN rows |-> SourceRow(rows[k])], narrow)
          IN  outside = [NoOutside EXCEPT !.original = book, !.source = book]

\* The pool block ends: every address has its record (lines 236-239).
PoolOver ==
    /\ mainPc = "map"
    /\ \E statuses \in [1..Len(ips) -> {"OK", "FAIL"}] :
          results' = [k \in 1..Len(ips) |-> ReportRecord(ips[k], statuses[k])]
    /\ mainPc' = "done"
    /\ UNCHANGED <<ips, creds, worker, future, nextItem, mainPos, finishOrder,
                   conns, log, arg, ret, outside>>

\* lines 240-247: the frame is built and the results workbook written.  With
\* no record the frame has no status column and line 242 raises KeyError;
\* the writer may fail; neither exception is caught.
MainOutputs ==
    /\ mainPc = "done"
    /\ \/ /\ results # << >>
          /\ outside' = [outside EXCEPT
                           !.output = [exists |-> TRUE, sheets |-> results]]
          /\ mainPc' = "failed_list"
       \/ /\ mainPc' = "crashed"
          /\ UNCHANGED outside
    /\ UNCHANGED <<ips, creds, worker, future, nextItem, results, mainPos,
                   finishOrder, conns, log, arg, ret>>

\* lines 248-251: the list of failed addresses is written when there is
\* one, and the summary line printed; a failed write is not caught.
MainFailedList ==
    /\ mainPc = "failed_list"
    /\ \/ /\ outside' = [outside EXCEPT
                           !.failed_list =
                               IF failed_ips(results) # << >>
                               THEN [exists |-> TRUE, lines |-> failed_ips(results)]
                               ELSE @,
                           !.console = Append(@, "written")]
          /\ mainPc' = "merge_backup"
       \/ /\ failed_ips(results) # << >>
          /\ mainPc' = "crashed"
          /\ UNCHANGED outside
    /\ UNCHANGED <<ips, creds, worker, future, nextItem, results, mainPos,
                   finishOrder, conns, log, arg, ret>>

\* Faulty variant of AfterBackup: a failed copy is ignored and the merge
\* goes on.
AfterBackupIgnoresFailure(ok) == "merge_read"

\* lines 193, 253-256: shutil.copyfile returns, or raises into the handler of
\* main, which ends the merge
AfterBackup(ok) == IF ok THEN "merge_read" ELSE "end"

\* lines 192-194: the backup copy of the source workbook
MergeBackup ==
    /\ mainPc = "merge_backup"
    /\ \E ok \in BOOLEAN :
          /\ outside' = [outside EXCEPT
                           !.backup = IF ok THEN outside.source ELSE MISSING,
                           !.console = Append(@, IF ok THEN "backup"
                                                 ELSE "merge_failed")]
          /\ mainPc' = AfterBackup(ok)
    /\ UNCHANGED <<ips, creds, worker, future, nextItem, results, mainPos,
                   finishOrder, conns, log, arg, ret>>

\* lines 196-199: the workbook is read and the column index checked; a
\* failed read or a column out of range raises into the handler of main.
MergeRead ==
    /\ mainPc = "merge_read"
    /\ \/ /\ ~outside.source.narrow
          /\ mainPc' = "merge_write"
          /\ UNCHANGED outside
       \/ /\ outside' = [outside EXCEPT !.console = Append(@, "merge_failed")]
          /\ mainPc' = "end"
    /\ UNCHANGED <<ips, creds, worker, future, nextItem, results, mainPos,
                   finishOrder, conns, log, arg, ret>>

\* lines 201-225: the rows are merged and the workbook written back over the
\* source; a write that fails leaves the source as it was or half written,
\* and raises into the handler of main.
MergeWrite ==
    /\ mainPc = "merge_write"
    /\ \/ outside' = [outside EXCEPT !.source = Merged(outside.source),
                                     !.console = Append(@, "merged")]
       \/ \E left \in {outside.source, DAMAGED} :
             outside' = [outside EXCEPT !.source = left,
                                        !.console = Append(@, "merge_failed")]
    /\ mainPc' = "end"
    /\ UNCHANGED <<ips, creds, worker, future, nextItem, results, mainPos,
                   finishOrder, conns, log, arg, ret>>

NextReport ==
    \/ PoolOver
    \/ MainOutputs
    \/ MainFailedList
    \/ MergeBackup
    \/ MergeRead
    \/ MergeWrite

SpecReport == InitReport /\ [][NextReport]_vars

\* ------------------------------------------------------------------------
\* Vocabulary of the properties
\* ------------------------------------------------------------------------

\* The session calls logged for the one address of SpecProbe.
L == log[1]

\* The pool has returned the record of a work item.
Done(i) == future[i].state = "done"

\* The record process_ip returned for a work item.
Rec(i) == future[i].record

\* A logged call has ended.
Ended(e) == e.result.kind # "none"

\* A logged call is an identity call that returned a non-empty response.
Authenticated(e) ==
    /\ e.call.command = COMMAND_IDENTITY
    /\ e.result.kind = "ret"
    /\ e.result.val # EMPTY

\* A logged call returned the empty text.
ReturnedEmpty(e) == e.result.kind = "ret" /\ e.result.val = EMPTY

\* Why a logged identity attempt failed: the message of the exception it
\* ended with.
Reason(e) ==
    IF e.result.kind = "ret" THEN EMPTY_RESPONSE ELSE e.result.msg

\* Every credential of the list has been tried.
Exhausted == Len(L) = Len(creds) /\ \A j \in 1..Len(L) : Ended(L[j])

\* The connections open in the whole pool.
RECURSIVE OpenIn(_)
OpenIn(S) ==
    IF S = {} THEN 0
    ELSE LET w == CHOOSE v \in S : TRUE IN conns[w] + OpenIn(S \ {w})

\* ------------------------------------------------------------------------
\* C1
\* ------------------------------------------------------------------------

\* C1: no exception leaves process_ip (no future holds one, main is never
\* aborted), and when the run has finished the results hold exactly one
\* record for every input address, whatever the session calls met.
Thm_C1 ==
    /\ mainPc # "aborted"
    /\ \A i \in Items : future[i].state # "raised"
    /\ mainPc = "done" =>
          /\ Len(results) = Len(ips)
          /\ \A i \in Items :
                Cardinality({k \in 1..Len(results) : results[k].ip = ips[i]}) = 1

\* A finished run over MaxIps addresses with a failed and a successful one.
Witness_C1 ==
    /\ mainPc = "done"
    /\ Len(ips) = MaxIps
    /\ \E k \in 1..Len(results) : results[k].status = "FAIL"
    /\ \E k \in 1..Len(results) : results[k].status = "OK"

\* ------------------------------------------------------------------------
\* C2
\* ------------------------------------------------------------------------

\* C2: once an identity call has returned a non-empty response, every later
\* session call for the address is made with the credential of that call.
Thm_C2 ==
    \A j \in 1..Len(L) : \A k \in 1..Len(L) :
        (j < k /\ Authenticated(L[j])) =>
            /\ L[k].call.username = L[j].call.username
            /\ L[k].call.password = L[j].call.password
            /\ <<L[j].call.username, L[j].call.password>> = creds[j]

\* The second credential authenticated and the primary wireless, alternate
\* wireless and export calls all followed.
Witness_C2 ==
    /\ Len(L) = 5
    /\ Authenticated(L[2])
    /\ L[5].call.command = COMMAND_EXPORT
    /\ Ended(L[5])

\* ------------------------------------------------------------------------
\* C3
\* ------------------------------------------------------------------------

\* Every identity attempt was rejected with an authentication error.
AllRejected == Exhausted /\ \A j \in 1..Len(L) : L[j].result.kind = "auth"

\* C3 as stated: when every credential is rejected, the record is a failure
\* whose error is the failure reason of the last credential's attempt.
Orig_C3 ==
    (Done(1) /\ AllRejected) =>
        /\ Rec(1).status = "FAIL"
        /\ Rec(1).error = Reason(L[Len(L)])

\* C3 amended: when every credential is rejected, the record is a failure
\* whose error is the default 'Auth/connection failed': a rejection is never
\* recorded.
Thm_C3 ==
    (Done(1) /\ AllRejected) =>
        /\ Rec(1).status = "FAIL"
        /\ Rec(1).error = DEFAULT_ERROR

Witness_C3 == Done(1) /\ AllRejected /\ Len(L) = Len(CREDENTIALS)

\* ------------------------------------------------------------------------
\* C4
\* ------------------------------------------------------------------------

\* Every identity attempt returned the empty text.
AllEmpty == Exhausted /\ \A j \in 1..Len(L) : ReturnedEmpty(L[j])

\* C4 as stated: when every attempt returns empty identity text, the error
\* is the default 'Auth/connection failed'.
Orig_C4 == (Done(1) /\ AllEmpty) => Rec(1).error = DEFAULT_ERROR

\* C4 amended: when every attempt returns empty identity text, the record
\* is a failure whose error is 'Empty response'.
Thm_C4 ==
    (Done(1) /\ AllEmpty) =>
        /\ Rec(1).status = "FAIL"
        /\ Rec(1).error = EMPTY_RESPONSE

Witness_C4 == Done(1) /\ AllEmpty /\ Len(L) = Len(CREDENTIALS)

\* ------------------------------------------------------------------------
\* C5
\* ------------------------------------------------------------------------

\* The attempts that ended otherwise than with an authentication rejection.
Recording == {j \in 1..Len(L) : L[j].result.kind # "auth"}

\* C5 as stated: the error of a failure that is the message of some attempt
\* is the message of the most recent attempt, never one that a later attempt
\* with another failure followed.
Orig_C5 ==
    (Done(1) /\ Rec(1).status = "FAIL"
        /\ \E j \in 1..Len(L) : Reason(L[j]) = Rec(1).error) =>
        Rec(1).error = Reason(L[Len(L)])

\* C5 amended: the error of a failure is the message of the most recent
\* attempt that ended with a transport error or an empty response, a later
\* such message replacing an earlier one; authentication rejections leave it
\* as it is, and without any such attempt it is the default.
Thm_C5 ==
    (Done(1) /\ Rec(1).status = "FAIL") =>
        /\ Exhausted
        /\ IF Recording = {} THEN Rec(1).error = DEFAULT_ERROR
           ELSE \E j \in Recording :
                    /\ \A k \in Recording : k <= j
                    /\ Rec(1).error = Reason(L[j])

\* A timeout, then an empty response that replaces it, then two rejections.
Witness_C5 ==
    /\ Done(1)
    /\ Len(L) = 4
    /\ L[1].result.kind = "exc" /\ L[1].result.msg = "timed out"
    /\ ReturnedEmpty(L[2])
    /\ L[3].result.kind = "auth"
    /\ L[4].result.kind = "auth"
    /\ Rec(1).error = EMPTY_RESPONSE

\* ------------------------------------------------------------------------
\* C6
\* ------------------------------------------------------------------------

\* C6 as stated: the records are collected in completion order, the k-th
\* record of the results being the one of the k-th address to finish.
Orig_C6 ==
    \A k \in 1..Len(results) :
        /\ k <= Len(finishOrder)
        /\ results[k].ip = ips[finishOrder[k]]

\* C6 amended: the records are collected in input order; the k-th record of
\* the results is the one of the k-th input address, so the record of an
\* address that finished early is appended only after the records of all
\* addresses before it.
Thm_C6 ==
    /\ Len(results) = mainPos - 1
    /\ \A k \in 1..Len(results) :
          /\ Done(k)
          /\ results[k] = Rec(k)
          /\ results[k].ip = ips[k]

\* The second address finished first; its record waited until the first
\* address's record was appended.
Witness_C6 ==
    /\ Len(finishOrder) >= 2
    /\ finishOrder[1] = 2
    /\ Len(results) >= 2
    /\ results[1].ip = ips[1]
    /\ results[2].ip = ips[2]

\* ------------------------------------------------------------------------
\* C7
\* ------------------------------------------------------------------------

\* C7: when an identity call returned a non-empty response, no identity
\* call follows it, and the record is an OK record with the credential of
\* that call, whatever the wireless and export calls ended with.
Thm_C7 ==
    \A j \in 1..Len(L) :
        Authenticated(L[j]) =>
            /\ \A k \in 1..Len(L) : k > j => L[k].call.command # COMMAND_IDENTITY
            /\ Done(1) =>
                  /\ Rec(1).status = "OK"
                  /\ Rec(1).username = L[j].call.username
                  /\ Rec(1).password = L[j].call.password

\* The third credential authenticated; the primary wireless call timed out,
\* the alternate one was rejected, the export call timed out.
Witness_C7 ==
    /\ Done(1)
    /\ Len(L) = 6
    /\ Authenticated(L[3])
    /\ L[4].result.kind = "exc"
    /\ L[5].result.kind = "auth"
    /\ L[6].result.kind = "exc"
    /\ Rec(1).status = "OK"

\* ------------------------------------------------------------------------
\* C8
\* ------------------------------------------------------------------------

\* The address was authenticated, both wireless calls returned the empty
\* text and the export call returned a text.
FallbackRan ==
    /\ Done(1)
    /\ Len(L) >= 4
    /\ Authenticated(L[Len(L) - 3])
    /\ L[Len(L) - 2].call.command = COMMAND_WIRELESS
    /\ ReturnedEmpty(L[Len(L) - 2])
    /\ L[Len(L) - 1].call.command = COMMAND_WIRELESS_ALT
    /\ ReturnedEmpty(L[Len(L) - 1])
    /\ L[Len(L)].call.command = COMMAND_EXPORT
    /\ L[Len(L)].result.kind = "ret"

\* The text the export call returned.
ExportText == L[Len(L)].result.val

\* A character that is neither a double quote nor white space.
IsValueChar(c) == c # "\"" /\ ~IsSpace(c)

\* Some line of the text holds radio-name= followed, after at most one
\* double quote, by a character that is neither a double quote nor white
\* space.
HasRadioValue(text) ==
    \E i \in 1..Len(text) :
        /\ MatchAt(text, MARK_RADIO, i)
        /\ LET j == i + Len(MARK_RADIO)
           IN  \/ j <= Len(text) /\ IsValueChar(text[j])
               \/ /\ j + 1 <= Len(text)
                  /\ text[j] = "\""
                  /\ IsValueChar(text[j + 1])

\* C8 as stated: when both wireless calls return empty text and the export
\* text holds a line with the radio-name= marker, radio_names is not empty.
Orig_C8 ==
    (FallbackRan /\ Contains(ExportText, MARK_RADIO)) =>
        Rec(1).radio_names # EMPTY

\* C8 amended: when both wireless calls return empty text and the export
\* text holds a line where radio-name= is followed, after at most one double
\* quote, by a character that is neither a double quote nor white space,
\* radio_names is not empty.
Thm_C8 ==
    (FallbackRan /\ HasRadioValue(ExportText)) =>
        Rec(1).radio_names # EMPTY

Witness_C8 ==
    /\ FallbackRan
    /\ ExportText = TXT_EXPORT_RADIO
    /\ Rec(1).radio_names = <<"R", "2">>

\* ------------------------------------------------------------------------
\* C9
\* ------------------------------------------------------------------------

\* C9: a pool thread holds an open connection only inside a session call
\* that has connected; none at the start of a call, none when idle, none in
\* the whole pool when the run has finished.
Thm_C9 ==
    /\ \A w \in DOMAIN worker :
          conns[w] = IF worker[w].phase \in {"exec", "finally"}
                        /\ worker[w].client = "open"
                     THEN 1 ELSE 0
    /\ mainPc = "done" => \A w \in DOMAIN worker : conns[w] = 0

\* A finished run whose session calls left ssh_run on each path: a rejected
\* credential (the connection was opened and the call raised), another
\* failure, and a returned text.
Witness_C9 ==
    /\ mainPc = "done"
    /\ \E j \in 1..Len(L) : L[j].result.kind = "auth"
    /\ \E j \in 1..Len(L) : L[j].result.kind = "exc"
    /\ \E j \in 1..Len(L) : L[j].result.kind = "ret"
    /\ \A w \in DOMAIN worker : conns[w] = 0

\* ------------------------------------------------------------------------
\* C10
\* ------------------------------------------------------------------------

\* C10: at most MAX_WORKERS connections are open, and at most MAX_WORKERS
\* addresses are being processed, at any time.
Thm_C10 ==
    /\ OpenIn(DOMAIN worker) <= MAX_WORKERS
    /\ Cardinality({i \in Items : future[i].state = "running"}) <= MAX_WORKERS
    /\ Cardinality({w \in DOMAIN worker : worker[w].stage # "idle"}) <= MAX_WORKERS

\* MAX_WORKERS connections are open while another address waits in the
\* queue.
Witness_C10 ==
    /\ Len(ips) > MAX_WORKERS
    /\ OpenIn(DOMAIN worker) = MAX_WORKERS
    /\ \E i \in Items : future[i].state = "pending"

\* ------------------------------------------------------------------------
\* C11
\* ------------------------------------------------------------------------

\* A logged call ran the given command.
IsCmd(e, command) == e.call.command = command

\* A logged call has ended with an exception or with the empty text.
FailedOrEmpty(e) ==
    /\ Ended(e)
    /\ e.result.kind # "ret" \/ e.result.val = EMPTY

\* C11: the session calls of one address run one after the other (only the
\* last logged call can still be in flight); the primary wireless call
\* follows the identity call that authenticated, the alternate wireless
\* call follows a primary call that failed or returned the empty text, and
\* the export call follows the two wireless calls, both ended, and is the
\* last call.
Thm_C11 ==
    /\ \A j \in 1..(Len(L) - 1) : Ended(L[j])
    /\ Cardinality({w \in DOMAIN worker : worker[w].item = 1}) <= 1
    /\ \A k \in 1..Len(L) :
          /\ IsCmd(L[k], COMMAND_WIRELESS) =>
                k > 1 /\ Authenticated(L[k - 1])
          /\ IsCmd(L[k], COMMAND_WIRELESS_ALT) =>
                /\ k > 1
                /\ IsCmd(L[k - 1], COMMAND_WIRELESS)
                /\ FailedOrEmpty(L[k - 1])
          /\ IsCmd(L[k], COMMAND_EXPORT) =>
                /\ k > 3
                /\ k = Len(L)
                /\ IsCmd(L[k - 1], COMMAND_WIRELESS_ALT) /\ Ended(L[k - 1])
                /\ IsCmd(L[k - 2], COMMAND_WIRELESS) /\ Ended(L[k - 2])
                /\ Authenticated(L[k - 3])

\* Identity, a primary wireless call that timed out, an alternate one that
\* returned the empty text, and the export call, all ended.
Witness_C11 ==
    /\ Done(1)
    /\ Len(L) = 4
    /\ Authenticated(L[1])
    /\ IsCmd(L[2], COMMAND_WIRELESS) /\ L[2].result.kind = "exc"
    /\ IsCmd(L[3], COMMAND_WIRELESS_ALT) /\ ReturnedEmpty(L[3])
    /\ IsCmd(L[4], COMMAND_EXPORT) /\ L[4].result.kind = "ret"

\* ------------------------------------------------------------------------
\* C12
\* ------------------------------------------------------------------------

\* The credentials of the list, as a set.
CredentialSet == {creds[i] : i \in 1..Len(creds)}

\* C12 as stated: a record is an OK record with the matched credential and
\* an empty error, or a FAIL record with empty credential, empty parsed
\* fields and a non-empty error.
Orig_C12 ==
    Done(1) =>
        \/ /\ Rec(1).status = "OK"
           /\ <<Rec(1).username, Rec(1).password>> \in CredentialSet
           /\ Rec(1).username # ""
           /\ Rec(1).error = ""
        \/ /\ Rec(1).status = "FAIL"
           /\ Rec(1).username = "" /\ Rec(1).password = ""
           /\ Rec(1).system_identity = EMPTY
           /\ Rec(1).ssids = EMPTY /\ Rec(1).radio_names = EMPTY
           /\ Rec(1).error # ""

\* ------------------------------------------------------------------------
\* C16
\* ------------------------------------------------------------------------

\* The logged calls that ran the export command.
ExportCalls == {k \in 1..Len(L) : IsCmd(L[k], COMMAND_EXPORT)}

\* The address was authenticated and both wireless calls ended with an
\* exception or with the empty text.
WirelessResolvedEmpty ==
    \E j \in 1..(Len(L) - 2) :
        /\ Authenticated(L[j])
        /\ IsCmd(L[j + 1], COMMAND_WIRELESS) /\ FailedOrEmpty(L[j + 1])
        /\ IsCmd(L[j + 2], COMMAND_WIRELESS_ALT) /\ FailedOrEmpty(L[j + 2])

\* C16: the export command is run at most once per address and with the
\* credential that authenticated; when the address is done, it has been run
\* if and only if the address was authenticated and both wireless calls
\* ended without text; it is never run for a FAIL record.
Thm_C16 ==
    /\ Cardinality(ExportCalls) <= 1
    /\ \A k \in ExportCalls :
          \E j \in 1..(k - 1) :
              /\ Authenticated(L[j])
              /\ L[k].call.username = L[j].call.username
              /\ L[k].call.password = L[j].call.password
    /\ Done(1) => (ExportCalls # {} <=> WirelessResolvedEmpty)
    /\ (Done(1) /\ Rec(1).status = "FAIL") => ExportCalls = {}

\* The third credential authenticated, both wireless calls returned
\* nothing, and the export call was made with the third credential.
Witness_C16 ==
    /\ Done(1)
    /\ Len(L) = 6
    /\ Authenticated(L[3])
    /\ WirelessResolvedEmpty
    /\ ExportCalls = {6}
    /\ <<L[6].call.username, L[6].call.password>> = CREDENTIALS[3]

\* ------------------------------------------------------------------------
\* C17
\* ------------------------------------------------------------------------

\* The logged calls that ran the identity command.
IdentityCalls == {k \in 1..Len(L) : IsCmd(L[k], COMMAND_IDENTITY)}

\* C17: the k-th session call of an address, when it is an identity call,
\* is made with the k-th credential of the list, after identity calls with
\* all credentials before it that ended without authenticating; the
\* credential of an OK record is the first one whose identity call returned
\* a non-empty response.
Thm_C17 ==
    /\ \A k \in IdentityCalls :
          /\ k <= Len(creds)
          /\ <<L[k].call.username, L[k].call.password>> = creds[k]
          /\ \A j \in 1..(k - 1) :
                /\ IsCmd(L[j], COMMAND_IDENTITY)
                /\ Ended(L[j])
                /\ ~Authenticated(L[j])
    /\ (Done(1) /\ Rec(1).status = "OK") =>
          \E j \in IdentityCalls :
              /\ Authenticated(L[j])
              /\ \A i \in 1..(j - 1) : ~Authenticated(L[i])
              /\ <<Rec(1).username, Rec(1).password>> = creds[j]

\* A rejection, a timeout and an empty response, then the fourth credential
\* authenticated and is the one of the record.
Witness_C17 ==
    /\ Done(1)
    /\ Len(L) >= 4
    /\ L[1].result.kind = "auth"
    /\ L[2].result.kind = "exc"
    /\ ReturnedEmpty(L[3])
    /\ Authenticated(L[4])
    /\ <<Rec(1).username, Rec(1).password>> = CREDENTIALS[4]

\* ------------------------------------------------------------------------
\* C18
\* ------------------------------------------------------------------------

\* C18 as stated: the duration of an OK record on which the export call ran
\* spans all session calls of the address, the export call included (the
\* clock ticks once per session call, and process_ip starts at 0).
Orig_C18 ==
    (Done(1) /\ Rec(1).status = "OK" /\ ExportCalls # {}) =>
        Rec(1).seconds = Len(L)

\* ------------------------------------------------------------------------
\* C15
\* ------------------------------------------------------------------------

\* The run is over: main has left the pool block with one record per
\* address, every future is done and every pool thread is idle.
Finished ==
    /\ mainPc = "done"
    /\ Len(results) = Len(ips)
    /\ nextItem = Len(ips) + 1
    /\ \A i \in Items : Done(i)
    /\ \A w \in DOMAIN worker : worker[w].stage = "idle"

\* An address that has been taken off the queue is not queued again, and a
\* record that has been returned stays as it is.
NoRetry ==
    \A i \in Items :
        /\ future[i].state # "pending" => future'[i].state # "pending"
        /\ future[i].state = "done" => future'[i] = future[i]

\* C15: under fair scheduling of the threads, with every session call
\* returning or raising, the run eventually is over and stays so, every
\* address processed; no address is taken twice.
Thm_C15 == <>[]Finished /\ [][NoRetry]_vars

\* A finished run over FairIps addresses whose last address timed out and
\* finished before the first one.
Witness_C15 ==
    /\ Finished
    /\ Len(ips) = FairIps
    /\ results[1].status = "OK"
    /\ results[FairIps].error = "timed out"
    /\ finishOrder[1] = FairIps

\* ------------------------------------------------------------------------
\* C13
\* ------------------------------------------------------------------------

\* The pieces of a ';'-joined field; none for the empty field.
Pieces(field) == IF field = EMPTY THEN << >> ELSE split(field, ";")

\* A field lists exactly the values of the set S, each once, in increasing
\* order.
ListsSorted(field, S) ==
    /\ Range(Pieces(field)) = S
    /\ Len(Pieces(field)) = Cardinality(S)
    /\ \A i \in 1..Len(Pieces(field)) : \A j \in 1..Len(Pieces(field)) :
          i < j => StrLess(Pieces(field)[i], Pieces(field)[j])

\* C13: the SSID field and the radio-name field list the distinct values of
\* the lines of the text, each once, sorted and joined with ';'.  What they
\* list depends on the set of lines only, not on their order or number:
\* Net-A and Net-B lines, in any order and however often, give
\* "Net-A;Net-B".
Thm_C13 ==
    ret.fn = "parse_wireless" =>
        /\ ListsSorted(ret.val.ssids,
                       {WIRELESS_LINES[k].ssid : k \in Range(arg.of)} \ {EMPTY})
        /\ ListsSorted(ret.val.radios,
                       {WIRELESS_LINES[k].radio : k \in Range(arg.of)} \ {EMPTY})
        /\ Range(arg.of) = {1, 2} => ret.val.ssids = Text("Net-A;Net-B")

\* Net-B, Net-A, Net-B, Net-A: each value twice, the larger one first.
Witness_C13 ==
    /\ ret.fn = "parse_wireless"
    /\ arg.of = <<2, 1, 3, 1>>
    /\ ret.val.ssids = Text("Net-A;Net-B")
    /\ ret.val.radios = Text("R1;R2")

\* ------------------------------------------------------------------------
\* C14
\* ------------------------------------------------------------------------

\* The lines of a kind among the lines a text was put together from.
LinesOfKind(ls, kind) == {k \in 1..Len(ls) : IDENTITY_LINES[ls[k]].kind = kind}

\* The name held by the first line of a kind.
FirstName(ls, kind) ==
    IDENTITY_LINES[ls[CHOOSE k \in LinesOfKind(ls, kind) :
                        \A j \in LinesOfKind(ls, kind) : k <= j]].name

Advanced == ret.stage = "identity" /\ ret.ci = 2

\* C19 as stated: the call returns the standard output whenever it is not
\* empty and the standard error when the standard output is empty; with
\* both empty the response is empty and the prober goes on to the next
\* credential.
Orig_C19 ==
    ret.fn = "ssh_run" =>
        /\ arg.out # EMPTY => ret.val = arg.out
        /\ arg.out = EMPTY => ret.val = arg.err
        /\ (arg.out = EMPTY /\ arg.err = EMPTY) => (ret.val = EMPTY /\ Advanced)

\* Some character of the text is not white space.
HasVisible(text) == \E i \in 1..Len(text) : ~IsSpace(text[i])

\* C19 amended: the call returns the standard output whenever it holds a
\* character that is not white space, and the standard error when the
\* standard output is empty or white space only; the prober goes on to the
\* next credential exactly when the value returned is empty, as after a
\* command that wrote nothing to either stream.
Thm_C19 ==
    ret.fn = "ssh_run" =>
        /\ HasVisible(arg.out) => ret.val = arg.out
        /\ ~HasVisible(arg.out) => ret.val = arg.err
        /\ Advanced <=> ret.val = EMPTY
        /\ (arg.out = EMPTY /\ arg.err = EMPTY) => (ret.val = EMPTY /\ Advanced)

\* A line break on the standard output, a message on the standard error:
\* the message is returned and the credential is taken as authenticated.
Witness_C19 ==
    /\ ret.fn = "ssh_run"
    /\ arg.out = Text("\n")
    /\ arg.err = Text("err\n")
    /\ ret.val = Text("err\n")
    /\ ~Advanced

\* ------------------------------------------------------------------------
\* C20
\* ------------------------------------------------------------------------

\* The cell of the column that first stands for an address.
FirstCell(address) ==
    CHOOSE k \in 1..Len(arg.of) :
        /\ CELLS[arg.of[k]].address = address
        /\ \A j \in 1..(k - 1) : CELLS[arg.of[j]].address # address

\* Four dot-separated groups of one to three digits, each at most 255.
LooksLikeAddress(t) ==
    /\ Len(split(t, ".")) = 4
    /\ \A octet \in Range(split(t, ".")) :
          /\ Len(octet) \in 1..3
          /\ \A i \in 1..Len(octet) : IsDigit(octet[i])
          /\ int(octet) <= 255

\* C20: load_ip_list returns, without duplicates, the addresses the cells of
\* the column stand for (the first IP-like token of a cell when it parses),
\* in the order of the cells they first occur in.
Thm_C20 ==
    ret.fn = "load_ip_list" =>
        /\ \A i \in 1..Len(ret.val) : \A j \in 1..Len(ret.val) :
              i # j => ret.val[i] # ret.val[j]
        /\ \A i \in 1..Len(ret.val) : LooksLikeAddress(ret.val[i])
        /\ Range(ret.val) = {CELLS[k].address : k \in Range(arg.of)} \ {EMPTY}
        /\ \A i \in 1..Len(ret.val) : \A j \in 1..Len(ret.val) :
              i < j => FirstCell(ret.val[i]) < FirstCell(ret.val[j])

\* Two addresses, the second one of the column repeated by a cell with text
\* around it.
Witness_C20 ==
    /\ ret.fn = "load_ip_list"
    /\ arg.of = <<6, 1, 3>>
    /\ ret.val = <<Text("10.0.0.2"), Text("10.0.0.1")>>

\* ------------------------------------------------------------------------
\* C25
\* ------------------------------------------------------------------------

\* How many logged calls ran the given command.
CallsOf(command) == Cardinality({k \in 1..Len(L) : IsCmd(L[k], command)})

\* C25: one address takes at most len(CREDENTIALS) + 3 session calls: at
\* most one identity call per credential and at most one primary wireless,
\* one alternate wireless and one export call; an address that no
\* credential authenticated takes exactly len(CREDENTIALS) calls, all of
\* them identity calls.
Thm_C25 ==
    /\ Len(L) <= Len(CREDENTIALS) + 3
    /\ CallsOf(COMMAND_IDENTITY) <= Len(CREDENTIALS)
    /\ CallsOf(COMMAND_WIRELESS) <= 1
    /\ CallsOf(COMMAND_WIRELESS_ALT) <= 1
    /\ CallsOf(COMMAND_EXPORT) <= 1
    /\ (Done(1) /\ Rec(1).status = "FAIL") =>
          /\ Len(L) = Len(CREDENTIALS)
          /\ CallsOf(COMMAND_IDENTITY) = Len(CREDENTIALS)

\* The longest run: the last credential authenticated and the two wireless
\* calls and the export call followed.
Witness_C25 ==
    /\ Done(1)
    /\ Len(L) = Len(CREDENTIALS) + 3
    /\ Authenticated(L[Len(CREDENTIALS)])
    /\ Rec(1).status = "OK"

\* ------------------------------------------------------------------------
\* C21
\* ------------------------------------------------------------------------

\* main is inside merge_results_into_source.
InMerge == mainPc \in {"merge_backup", "merge_read", "merge_write"}

\* C21: a step changes the source workbook only when the backup holds a copy
\* of it as it was; no step of the merge ends main with an uncaught
\* exception, and a step that ends the merge without the merged workbook
\* reports the failure; the results file, once written, stays as it is.
Thm_C21 ==
    [][ /\ outside'.source # outside.source =>
              /\ mainPc = "merge_write"
              /\ outside.backup = outside.original
              /\ outside.source = outside.original
        /\ InMerge => mainPc' # "crashed"
        /\ (InMerge /\ mainPc' = "end" /\ outside'.source # Merged(outside.original)) =>
              /\ outside'.console[Len(outside'.console)] = "merge_failed"
              /\ outside'.output = [exists |-> TRUE, sheets |-> results]
        /\ outside.output # MISSING => outside'.output = outside.output
      ]_vars

\* The backup copy failed: the failure is reported, the source workbook is
\* as it was and the results file is there.
Witness_C21 ==
    /\ mainPc = "end"
    /\ outside.backup = MISSING
    /\ outside.console = <<"written", "merge_failed">>
    /\ outside.source = outside.original
    /\ Len(outside.source.rows) = MaxRows
    /\ outside.output = [exists |-> TRUE, sheets |-> results]

\* ------------------------------------------------------------------------
\* C22
\* ------------------------------------------------------------------------

\* The rows of the call, by position, that are valid and hold the number.
RowsWith(number) ==
    {i \in DOMAIN arg.of :
        /\ CONTACT_ROWS[arg.of[i]].valid
        /\ number \in Range(CONTACT_ROWS[arg.of[i]].numbers)}

\* C22: parse_contacts returns no number twice, and every number it returns
\* with the name of the first row, among the rows with a valid name, that
\* holds the number; a number held only by rows with an invalid name is not
\* returned.
Thm_C22 ==
    ret.fn = "parse_contacts" =>
        /\ \A k, l \in DOMAIN ret.val : k # l => ret.val[k][2] # ret.val[l][2]
        /\ \A k \in DOMAIN ret.val :
              LET with == RowsWith(ret.val[k][2])
              IN  /\ with # {}
                  /\ \E i \in with :
                        /\ \A j \in with : i <= j
                        /\ ret.val[k][1] = CONTACT_ROWS[arg.of[i]].name

\* A row with an invalid name, then two rows with valid names that share a
\* number: the number comes once, with the name of the earlier row, and the
\* second number of the invalid row does not come.
Witness_C22 ==
    /\ ret.fn = "parse_contacts"
    /\ arg.of = <<3, 1, 2>>
    /\ ret.val = << <<Text("Ali"), Text("+9613111")>>,
                    <<Text("Sam Haddad"), Text("+96170222")>> >>

\* ------------------------------------------------------------------------
\* C23
\* ------------------------------------------------------------------------

\* The contacts of the call, by position, whose similarity to the account
\* name of customer row k is the best one.
BestContacts(k) ==
    {j \in DOMAIN arg.of :
        \A i \in DOMAIN arg.of :
            ~Greater(SIMILARITY[arg.accounts[k]][arg.of[i]],
                     SIMILARITY[arg.accounts[k]][arg.of[j]])}

\* The best similarity meets the threshold.
BestMeets(k) ==
    \E j \in BestContacts(k) :
        AtLeast(SIMILARITY[arg.accounts[k]][arg.of[j]], arg.threshold)

\* Row k of the result carries the phone and the name of contact j.
MatchedTo(k, j) ==
    /\ ret.rows[k].matched_phone = CONTACTS[arg.of[j]][2]
    /\ ret.rows[k].matched_name = CONTACTS[arg.of[j]][1]

\* C23, as stated: a customer row carries the phone and the name of a contact
\* with the best similarity to its account name if and only if that
\* similarity meets the threshold, and carries an empty phone and an empty
\* name otherwise.
Orig_C23 ==
    ret.fn = "match_accounts" =>
        \A k \in DOMAIN ret.rows :
            /\ ret.rows[k].account_name = ACCOUNTS[arg.accounts[k]].name
            /\ IF BestMeets(k)
               THEN \E j \in BestContacts(k) : MatchedTo(k, j)
               ELSE /\ ret.rows[k].matched_phone = EMPTY
                    /\ ret.rows[k].matched_name = EMPTY

\* ------------------------------------------------------------------------
\* C24
\* ------------------------------------------------------------------------

\* The phone of a contact is the Matched Phone of some customer row.
IsMatched(contact) ==
    \E k \in DOMAIN ret.rows : ret.rows[k].matched_phone = contact[2]

\* C24: the leftover list is the contact list without the contacts whose
\* phone is the Matched Phone of a customer row, in the order of the contact
\* list.
Thm_C24 ==
    ret.fn = "match_accounts" =>
        /\ ret.leftover = SelectSeq(arg.contacts, LAMBDA c : ~IsMatched(c))
        /\ \A j \in DOMAIN arg.contacts :
              (arg.contacts[j] \in Range(ret.leftover)) <=> ~IsMatched(arg.contacts[j])

\* Two contacts and two customer rows: the second contact is matched by the
\* first row, the first contact by no row and left over.
Witness_C24 ==
    /\ ret.fn = "match_accounts"
    /\ arg.accounts = <<2, 3>>
    /\ arg.of = <<4, 2>>
    /\ arg.threshold = 67
    /\ ret.rows[1].matched_phone = Text("+2")
    /\ ret.leftover = << <<Text("Alx"), Text("+4")>> >>

====
